---- MODULE Spec2Model ----
(***************************************************************************)
(* Backtest execution orchestrator of the lean-api package:                *)
(*   - the distributed port lease allocator (services/distributed-ports),  *)
(*   - the job lifecycle driven by processBacktest / runLeanBacktest       *)
(*     (workers/backtest-worker.ts), the BullMQ retry policy               *)
(*     (workers/queue.ts) and the abort route (routes/backtests).          *)
(*   - the usage ledger (createUsageRecord, markUsageRunning,              *)
(*     completeUsageRecord, cleanupOrphanedJobs, abortStaleJobs,           *)
(*     canUserRunJob),                                                     *)
(*   - the market-data cache (checkCacheStatus, ensureSymbolInCache).      *)
(* Specifications:                                                         *)
(*   SpecPorts  - clients calling the allocator's functions in any order,  *)
(*   Spec       - one job processed by the worker pool, with abort,        *)
(*   SpecPool   - two jobs sharing the worker pool and the port range,     *)
(*   SpecWorkspace - two jobs of one project and the clock,                *)
(*   SpecLedger - one job, its usage rows, the sweep and reconciliation,   *)
(*   SpecQuota  - the quota check called while a job is processed,         *)
(*   SpecRetry  - one job and the retry policy of the queue,               *)
(*   SpecSse    - one job and a client of its event stream,                *)
(*   SpecSseLive - SpecSse with fair scheduling of worker and poller,      *)
(*   SpecChart  - one job publishing chart updates, and one subscriber,    *)
(*   SpecSubmit - the create request of one job and the worker pool,       *)
(*   SpecProviders - one ensureMarketDataCached call,                      *)
(*   SpecCache  - calls on the market-data cache,                          *)
(*   SpecMerge  - mergeBars applied to two bar sets.                       *)
(***************************************************************************)
EXTENDS Integers, Sequences, FiniteSets, TLC

\* ---------------------------------------------------------------- bounds
\* Number of ports of the configured range that the model scans.
NumPorts == 2
\* Calendar days of the cache, and ensureSymbolInCache calls in a behaviour
\* of the cache (SpecCache).
MaxDay == 3
MaxEnsures == 2
\* Bars in each input of mergeBars (SpecMerge).
MaxBars == 2
\* Seconds that pass in one step of the clock.
TickSeconds == 300

\* ------------------------------------------------------ program constants
PORT_TTL_SECONDS == 600
LEAN_STREAMING_PORT_BASE == 5680
LEAN_STREAMING_PORT_MAX == LEAN_STREAMING_PORT_BASE + NumPorts - 1

Ports == LEAN_STREAMING_PORT_BASE..LEAN_STREAMING_PORT_MAX
Jobs == {"j1", "j2"}
Symbols == {"spy"}
Days == 1..MaxDay
Nodes == {"n1", "n2"}
NoPort == 0
NoJob == "-"

\* process.env.WORKER_NODE_ID of each worker node ("" when it is not set).
EnvWorkerNodeId == [n \in Nodes |-> IF n = "n1" THEN "node-1" ELSE ""]

\* Default of the workerId parameter of allocatePort/releasePort/refreshPort.
DefaultWorkerId(n) == IF EnvWorkerNodeId[n] # "" THEN EnvWorkerNodeId[n] ELSE "unknown"

\* WORKER_NODE of backtest-worker.ts, the identity passed to cleanupStalePorts.
WORKER_NODE(n) == IF EnvWorkerNodeId[n] # "" THEN EnvWorkerNodeId[n] ELSE "worker-" \o n

OwnerIds == {DefaultWorkerId(n) : n \in Nodes} \cup {WORKER_NODE(n) : n \in Nodes}

VARIABLES
  lease,    \* the shared store: port -> lock key (owner, remaining ttl, creating call)
  node,     \* job/caller -> worker node it runs on
  scan,     \* caller -> candidate port of its allocatePort loop (NoPort: not scanning)
  got,      \* caller -> port its last allocatePort returned (NoPort: null)
  cs,       \* node -> position of its cleanupStalePorts loop
  call,     \* the latest releasePort/refreshPort call and what it replied
  status,        \* qc_backtests.status of each job
  progress,      \* qc_backtests.progress of each job
  errorMessage,  \* qc_backtests.error_message of each job
  queued,        \* job -> it waits in the 'backtests' queue (waiting or delayed)
  attempts,      \* job -> attemptsMade of the queue entry
  pc,            \* job -> position of its processBacktest task
  ret,           \* job -> what the try block of runLeanBacktest returned
  err,           \* job -> result.error, or the message of the exception raised
  poller,        \* job -> resultPollerInterval of its run is still armed
  ws,            \* job -> the workspace directory of its run exists
  procEnd,       \* job -> how the docker process of its run ended
  artifact,      \* job -> main.json of its run exists and parses
  inflight,      \* job -> progress writes issued without await, not yet applied
  cleanupErr,    \* job -> cleanup steps of its run that raised an error
  ab,            \* job -> position of the abort request on it
  aborts,        \* abort requests served so far
  runs,          \* processBacktest invocations the queue may still start
  creds,         \* job -> its owner has brokerage credentials
  keepTemp,      \* process.env.LEAN_KEEP_TEMP === 'true'
  usage,         \* job -> the usage_tracking rows created for it, oldest first
  uid,           \* job -> usageTrackingId of its processBacktest task
  link,          \* job -> qc_backtests.usage_tracking_id
  faults,        \* usage_tracking statements that may still fail
  rec,           \* position of cleanupOrphanedJobs
  led,           \* the latest maintenance call on the ledger and its reply
  zip,           \* symbol -> the lines of equity/usa/daily/<symbol>.zip
  aux,           \* symbol -> its map file and factor file exist
  ensured,       \* the (symbol, start, end) of the ensureSymbolInCache calls made
  chk,           \* the latest checkCacheStatus call and its reply
  ens,           \* the latest ensureSymbolInCache call and the status it found
  tz,            \* hours the server's local time is ahead of UTC
  mrg,           \* a mergeBars call: its two inputs and its result
  sse,           \* the GET /stream/:backtestId request on a job and its connection
  chan,          \* the chart channel of a job: publisher, store, one subscriber
  workspaceId,   \* job -> the workspaceId of its run (project and clock reading)
  now,           \* Date.now(), in milliseconds from the start
  tx,            \* job -> position of the POST /create request that submits it
  md             \* an ensureMarketDataCached call: inputs, position, result

portVars == <<lease, node, scan, got, cs, call>>
dbVars == <<status, progress, errorMessage>>
queueVars == <<queued, attempts, runs>>
runVars == <<pc, ret, err, poller, ws, procEnd, artifact, inflight, cleanupErr>>
abortVars == <<ab, aborts>>
cfgVars == <<creds, keepTemp>>
ledgerVars == <<usage, uid, link, faults, rec, led>>
cacheVars == <<zip, aux, ensured, chk, ens, tz, mrg>>
streamVars == <<sse, chan>>
wsVars == <<workspaceId, now>>
apiVars == <<tx, md>>
jobVars == <<dbVars, queueVars, runVars, abortVars, cfgVars, ledgerVars, cacheVars,
             streamVars, wsVars, apiVars>>
vars == <<portVars, jobVars>>

\* ------------------------------------------------------------ lease store
\* An absent key.  `by' names the call whose SET created the key; the store
\* does not keep it, it tells two successive keys of one port apart.
NoLease == [owner |-> "", ttl |-> 0, by |-> NoJob]

LeaseValues == {NoLease} \cup
  [owner : OwnerIds, ttl : 1..PORT_TTL_SECONDS, by : Jobs]

Exists(l, p) == l[p] # NoLease

\* Reply of SET key value EX ttl NX: 'OK' only when the key is absent.
SetNxAcquired_Plain(l, p) == TRUE
SetNxAcquired(l, p) == ~Exists(l, p)

\* The store after SET key workerId EX PORT_TTL_SECONDS NX issued for caller j.
SetNxEx(l, p, w, j) ==
  IF SetNxAcquired(l, p)
  THEN [l EXCEPT ![p] = [owner |-> w, ttl |-> PORT_TTL_SECONDS, by |-> j]]
  ELSE l

\* The Lua script of releasePort: DEL only if GET equals the caller's id.
ReleaseScriptMatches_Any(l, p, w) == Exists(l, p)
ReleaseScriptMatches(l, p, w) == Exists(l, p) /\ l[p].owner = w

ReleaseScript(l, p, w) ==
  IF ReleaseScriptMatches(l, p, w) THEN [l EXCEPT ![p] = NoLease] ELSE l

\* The Lua script of refreshPort: EXPIRE only if GET equals the caller's id.
RefreshScriptMatches_Any(l, p, w) == Exists(l, p)
RefreshScriptMatches(l, p, w) == Exists(l, p) /\ l[p].owner = w

RefreshScript(l, p, w) ==
  IF RefreshScriptMatches(l, p, w)
  THEN [l EXCEPT ![p].ttl = PORT_TTL_SECONDS]
  ELSE l

\* Keys whose TTL runs out are removed by the store.
Elapse(l, d) ==
  [p \in Ports |-> IF Exists(l, p) /\ l[p].ttl > d
                   THEN [l[p] EXCEPT !.ttl = l[p].ttl - d]
                   ELSE NoLease]

\* ------------------------------------------------- allocator, client view
NoCall == [op |-> "none", port |-> NoPort, id |-> "", ok |-> FALSE, seq |-> 0]

CsIdle == [pc |-> "idle", port |-> NoPort]

\* allocatePort is entered: the loop starts at portBase.
allocatePortBegin(j) ==
  /\ scan[j] = NoPort
  /\ got[j] = NoPort
  /\ scan' = [scan EXCEPT ![j] = LEAN_STREAMING_PORT_BASE]
  /\ UNCHANGED <<lease, node, got, cs, call, jobVars>>

\* One iteration of the loop of allocatePort: a single SET NX on the candidate.
allocatePort(j) ==
  /\ scan[j] # NoPort
  /\ LET p == scan[j]
         w == DefaultWorkerId(node[j])
     IN /\ lease' = SetNxEx(lease, p, w, j)
        /\ IF SetNxAcquired(lease, p)
           THEN /\ got' = [got EXCEPT ![j] = p]
                /\ scan' = [scan EXCEPT ![j] = NoPort]
           ELSE /\ got' = got
                /\ scan' = [scan EXCEPT ![j] =
                              IF p < LEAN_STREAMING_PORT_MAX THEN p + 1 ELSE NoPort]
  /\ UNCHANGED <<node, cs, call, jobVars>>

\* releasePort(port, workerId) called by a client for any port of the range.
releasePort(j, p) ==
  /\ scan[j] = NoPort
  /\ LET w == DefaultWorkerId(node[j])
     IN /\ lease' = ReleaseScript(lease, p, w)
        /\ call' = [op |-> "release", port |-> p, id |-> w,
                    ok |-> ReleaseScriptMatches(lease, p, w), seq |-> 1 - call.seq]
  /\ got' = [got EXCEPT ![j] = IF got[j] = p THEN NoPort ELSE got[j]]
  /\ UNCHANGED <<node, scan, cs, jobVars>>

\* refreshPort(port, workerId) called by a client for any port of the range.
refreshPort(j, p) ==
  /\ scan[j] = NoPort
  /\ LET w == DefaultWorkerId(node[j])
     IN /\ lease' = RefreshScript(lease, p, w)
        /\ call' = [op |-> "refresh", port |-> p, id |-> w,
                    ok |-> RefreshScriptMatches(lease, p, w), seq |-> 1 - call.seq]
  /\ UNCHANGED <<node, scan, got, cs, jobVars>>

\* cleanupStalePorts(workerId) is entered by a starting worker.
cleanupStalePortsBegin(n) ==
  /\ cs[n].pc = "idle"
  /\ cs' = [cs EXCEPT ![n] = [pc |-> "get", port |-> LEAN_STREAMING_PORT_BASE]]
  /\ UNCHANGED <<lease, node, scan, got, call, jobVars>>

CsAdvance(p) ==
  IF p < LEAN_STREAMING_PORT_MAX THEN [pc |-> "get", port |-> p + 1] ELSE CsIdle

\* const owner = await r.get(lockKey); if (owner === workerId) ...
cleanupStalePortsGet(n) ==
  /\ cs[n].pc = "get"
  /\ LET p == cs[n].port
     IN cs' = [cs EXCEPT ![n] =
                 IF Exists(lease, p) /\ lease[p].owner = WORKER_NODE(n)
                 THEN [pc |-> "del", port |-> p]
                 ELSE CsAdvance(p)]
  /\ UNCHANGED <<lease, node, scan, got, call, jobVars>>

\* await r.del(lockKey), a separate round trip after the GET.
cleanupStalePortsDel(n) ==
  /\ cs[n].pc = "del"
  /\ LET p == cs[n].port
     IN /\ lease' = [lease EXCEPT ![p] = NoLease]
        /\ cs' = [cs EXCEPT ![n] = CsAdvance(p)]
  /\ UNCHANGED <<node, scan, got, call, jobVars>>

\* TickSeconds seconds pass; the store drops the keys whose TTL ran out.
Tick ==
  /\ \E p \in Ports : Exists(lease, p)
  /\ lease' = Elapse(lease, TickSeconds)
  /\ UNCHANGED <<node, scan, got, cs, call, jobVars>>

\* job.data.projectId: the two backtests are of one project.
projectId(j) == "p1"

\* No run has chosen a workspace.
NoWorkspace == <<>>

\* The job side is at rest in SpecPorts.
JobsAtRest ==
  /\ workspaceId = [j \in Jobs |-> NoWorkspace]
  /\ now = 0
  /\ progress = [j \in Jobs |-> 0]
  /\ errorMessage = [j \in Jobs |-> ""]
  /\ attempts = [j \in Jobs |-> 0]
  /\ pc = [j \in Jobs |-> "idle"]
  /\ ret = [j \in Jobs |-> "none"]
  /\ err = [j \in Jobs |-> ""]
  /\ poller = [j \in Jobs |-> FALSE]
  /\ ws = [j \in Jobs |-> FALSE]
  /\ procEnd = [j \in Jobs |-> "none"]
  /\ artifact = [j \in Jobs |-> FALSE]
  /\ inflight = [j \in Jobs |-> {}]
  /\ cleanupErr = [j \in Jobs |-> {}]
  /\ ab = [j \in Jobs |-> "idle"]
  /\ aborts = 0

\* let usageTrackingId: string | null = null
NoUsage == 0

\* No maintenance call on the ledger yet; cleanupOrphanedJobs is not running.
NoOp == [op |-> "none", arg |-> "", res |-> "", n |-> 0]

RecIdle == [pc |-> "idle", todo |-> {}, runs |-> 0]

\* No usage row yet; f statements on usage_tracking may fail.
InitUsage(f) ==
  /\ usage = [j \in Jobs |-> <<>>]
  /\ uid = [j \in Jobs |-> NoUsage]
  /\ link = [j \in Jobs |-> NoUsage]
  /\ faults = f
  /\ rec = RecIdle
  /\ led = NoOp

\* Dates are JavaScript Date values: an instant, counted in hours from
\* 00:00 UTC of day 0.
HoursPerDay == 24
\* Offsets of the server's local time: a server west of UTC, on UTC, east
\* of UTC.
UTC == 0
TimeZones == {-5, UTC, 2}

\* new Date(year, month, day): midnight of the day in local time.
LocalMidnight(d) == HoursPerDay * d - tz
\* date.toISOString().split('T')[0]: the day of the instant in UTC.
IsoDay(t) == t \div HoursPerDay

\* An empty data cache, and no call made on it.
NoCheck == [sym |-> "", from |-> 0, to |-> 0, status |-> "", seq |-> 0]
NoEnsure == [sym |-> "", from |-> 0, to |-> 0, status |-> "", days |-> {}, n |-> 0]
NoMerge == [existing |-> <<>>, newBars |-> <<>>, merged |-> <<>>, done |-> FALSE]

\* No stream request was made; nobody published or subscribed.
NoEvent == [type |-> "", status |-> "", completed |-> FALSE]
\* Calls of pollBacktest of one stream that are in progress at a time.
MaxPolls == 2
NoPoll == [st |-> "idle", snap |-> ""]
NoStream ==
  [phase |-> "none", job |-> NoJob, polls |-> [k \in 1..MaxPolls |-> NoPoll],
   timer |-> FALSE, listening |-> FALSE, client |-> FALSE, last |-> NoEvent,
   seq |-> 0, late |-> FALSE]
NoChannel ==
  [wire |-> <<>>, sub |-> "none", of |-> NoJob, inbox |-> <<>>, seen |-> <<>>,
   sent |-> 0]

\* No ensureMarketDataCached call.
NoProviders ==
  [env |-> {}, user |-> {}, info |-> [o \in {"user", "platform"} |-> "none"],
   works |-> {}, i |-> 0, out |-> "", by |-> ""]

InitStream ==
  /\ sse = NoStream
  /\ chan = NoChannel
  /\ md = NoProviders

InitCache(Z, M) ==
  /\ zip = [s \in Symbols |-> <<>>]
  /\ aux = [s \in Symbols |-> FALSE]
  /\ ensured = {}
  /\ chk = NoCheck
  /\ ens = NoEnsure
  /\ tz \in Z
  /\ mrg \in M

InitPorts ==
  /\ lease = [p \in Ports |-> NoLease]
  /\ node \in [Jobs -> Nodes]
  /\ scan = [j \in Jobs |-> NoPort]
  /\ got = [j \in Jobs |-> NoPort]
  /\ cs = [n \in Nodes |-> CsIdle]
  /\ call = NoCall
  /\ JobsAtRest
  /\ status = [j \in Jobs |-> "none"]
  /\ queued = [j \in Jobs |-> FALSE]
  /\ tx = [j \in Jobs |-> "none"]
  /\ runs = 0
  /\ creds = [j \in Jobs |-> TRUE]
  /\ keepTemp = FALSE
  /\ InitUsage(0)
  /\ InitCache({UTC}, {NoMerge})
  /\ InitStream

NextPorts ==
  \/ \E j \in Jobs : allocatePortBegin(j)
  \/ \E j \in Jobs : allocatePort(j)
  \/ \E j \in Jobs, p \in Ports : releasePort(j, p)
  \/ \E j \in Jobs, p \in Ports : refreshPort(j, p)
  \/ \E n \in Nodes : cleanupStalePortsBegin(n)
  \/ \E n \in Nodes : cleanupStalePortsGet(n)
  \/ \E n \in Nodes : cleanupStalePortsDel(n)
  \/ Tick

SpecPorts == InitPorts /\ [][NextPorts]_vars

\* ============================================================ job lifecycle

\* ---------------------------------------------------------------- bounds
\* Progress writes of one job that may be pending at the same time.
MaxInflight == 1
\* Abort requests served in a behaviour.
MaxAborts == 1
\* processBacktest invocations in a behaviour of the worker pool (SpecPool).
MaxPoolRuns == 2
\* Milliseconds that pass while two jobs are processed (SpecWorkspace).
MaxNow == 1
\* Invocations of the processor while a job is submitted (SpecSubmit).
MaxSubmitRuns == 1
\* Minutes by which the running usage rows age in one step, and the age at
\* which they stop ageing.
AgeStep == 20
MaxRecordAge == 40
\* Maintenance calls on the ledger, failing usage_tracking statements and
\* processBacktest invocations in a behaviour of the ledger (SpecLedger).
MaxLedgerOps == 2
MaxFaults == 1
MaxLedgerRuns == 1
\* Invocations of the processor while a client streams the job (SpecSse),
\* and while chart updates are published (SpecChart).
MaxSseRuns == 1
MaxChartRuns == 1
\* Chart updates a worker publishes (SpecChart).
MaxUpdates == 3
\* Invocations of the processor the queue may start in SpecRetry: more than
\* the attempts of the retry policy.
MaxRetryRuns == 4

\* ------------------------------------------------------ program constants
\* Age in minutes above which cleanupOrphanedJobs kills a container, and the
\* timeout startPeriodicCleanup passes to abortStaleJobs.
STALE_MINUTES == 30
\* defaultJobOptions.attempts of the 'backtests' queue.
QueueAttempts == 3
\* Default of BACKTEST_CONCURRENCY, the jobs one worker processes in parallel.
BACKTEST_CONCURRENCY == 2

\* Messages of the errors that end a run.
E_BROKER == "BROKER_NOT_CONNECTED"
E_MAIN == "main.py not found"
E_EXIT == "Docker exit code"
E_PARSE == "Failed to parse LEAN results"
E_ABORT == "Aborted by user"
E_STEP == "exception in runLeanBacktest"
E_RELEASE == "releasePort rejected"

\* Ways the docker process can end: 'close' with code 0, 'close' with a
\* non-zero code, 'close' with code null (killed by a signal), 'error'.
ProcEnds == {"exit0", "exitN", "signal", "error"}

\* code: code || 0 in the 'close' handler, code: 1 in the 'error' handler.
ResultCode(how) ==
  CASE how = "exit0" -> 0
    [] how = "exitN" -> 1
    [] how = "signal" -> 0
    [] how = "error" -> 1

\* Inputs of the stdout handler: (daysPassed / totalDays) * 100 of a log date,
\* and the number of a "Progress: N%" line.
DatePercents == {150}
MarkerPercents == {200}

Min(a, b) == IF a < b THEN a ELSE b
Max(a, b) == IF a > b THEN a ELSE b

\* mappedProgress of a log date: 50 + clamp(0, 100) * 0.4
MappedDateProgress(d) == 50 + (Min(100, Max(0, d)) * 4) \div 10
\* mappedProgress of a "Progress: N%" line: 50 + N * 0.4
MappedLeanProgress(m) == 50 + (m * 4) \div 10

\* The onProgress calls one stdout chunk issues (none of them awaited).  The
\* date branch is throttled to one write per 2 seconds.
\* ds, ms: the log date and the progress line of the chunk, if any.
ChunkWrites(ds, throttled, ms) ==
  (IF throttled THEN {} ELSE {MappedDateProgress(d) : d \in ds}) \cup
  {MappedLeanProgress(m) : m \in ms}

AtMostOne(S) == {{}} \cup {{x} : x \in S}

Active(n) == {k \in Jobs : pc[k] # "idle" /\ node[k] = n}

\* processBacktest returns or rethrows: the locals of the invocation are gone.
\* (ws and poller describe the run in progress only.)
LocalsDropped(j) ==
  /\ ret' = [ret EXCEPT ![j] = "none"]
  /\ err' = [err EXCEPT ![j] = ""]
  /\ poller' = [poller EXCEPT ![j] = FALSE]
  /\ ws' = [ws EXCEPT ![j] = FALSE]
  /\ procEnd' = [procEnd EXCEPT ![j] = "none"]
  /\ artifact' = [artifact EXCEPT ![j] = FALSE]
  /\ cleanupErr' = [cleanupErr EXCEPT ![j] = {}]
  /\ got' = [got EXCEPT ![j] = NoPort]
  /\ workspaceId' = [workspaceId EXCEPT ![j] = NoWorkspace]
  /\ now' = now

\* The worker of node n takes job j from the queue and calls processBacktest.
Pickup(j, n) ==
  /\ queued[j]
  /\ pc[j] = "idle"
  /\ Cardinality(Active(n)) < BACKTEST_CONCURRENCY
  /\ runs > 0
  /\ runs' = runs - 1
  /\ queued' = [queued EXCEPT ![j] = FALSE]
  /\ attempts' = [attempts EXCEPT ![j] = @ + 1]
  /\ node' = [node EXCEPT ![j] = n]
  /\ pc' = [pc EXCEPT ![j] = "usage"]
  /\ UNCHANGED <<lease, scan, got, cs, call, dbVars, ret, err, poller, ws,
                 procEnd, artifact, inflight, cleanupErr, abortVars, cfgVars, cacheVars, streamVars, wsVars, apiVars, ledgerVars>>

\* UPDATE qc_backtests SET column = v WHERE qc_backtest_id = j: no row is
\* changed when the record of j is not there.
UpdateRow(f, j, v) == IF status[j] = "none" THEN f ELSE [f EXCEPT ![j] = v]

\* UPDATE qc_backtests SET status = 'running', progress = 0
SetRunning(j) ==
  /\ pc[j] = "start"
  /\ status' = UpdateRow(status, j, "running")
  /\ progress' = UpdateRow(progress, j, 0)
  /\ pc' = [pc EXCEPT ![j] = "mark"]
  /\ UNCHANGED <<portVars, errorMessage, queueVars, ret, err, poller, ws,
                 procEnd, artifact, inflight, cleanupErr, abortVars, cfgVars, cacheVars, streamVars, wsVars, apiVars, ledgerVars>>

\* if (!brokerageCredentials) throw new Error('BROKER_NOT_CONNECTED: ...')
HasCredentials_Always(j) == TRUE
HasCredentials(j) == creds[j]

\* getUserBrokerageCredentials and the check of its result.
ResolveCredentials(j) ==
  /\ pc[j] = "creds"
  /\ IF HasCredentials(j)
     THEN /\ pc' = [pc EXCEPT ![j] = "files"]
          /\ err' = err
     ELSE /\ pc' = [pc EXCEPT ![j] = "catch"]
          /\ err' = [err EXCEPT ![j] = E_BROKER]
  /\ UNCHANGED <<portVars, dbVars, queueVars, ret, poller, ws, procEnd,
                 artifact, inflight, cleanupErr, abortVars, cfgVars, cacheVars, streamVars, wsVars, apiVars, ledgerVars>>

\* The project files are read; without main.py the job fails, otherwise the
\* symbols and dates are extracted and updateProgress(5), (10) are awaited.
LoadFiles(j) ==
  /\ pc[j] = "files"
  /\ \E hasMain \in BOOLEAN :
       IF hasMain
       THEN /\ progress' = [progress EXCEPT ![j] = 10]
            /\ pc' = [pc EXCEPT ![j] = "workspace"]
            /\ err' = err
       ELSE /\ progress' = progress
            /\ pc' = [pc EXCEPT ![j] = "catch"]
            /\ err' = [err EXCEPT ![j] = E_MAIN]
  /\ UNCHANGED <<portVars, status, errorMessage, queueVars, ret, poller, ws,
                 procEnd, artifact, inflight, cleanupErr, abortVars, cfgVars, cacheVars, streamVars, wsVars, apiVars, ledgerVars>>

\* const workspaceId = `${projectId}-${Date.now()}`
WorkspaceName(p, t) == <<p, t>>

\* runLeanBacktest up to onProgress(40): mkdir of the workspace, static data,
\* algorithm files.  A step after mkdir may throw.
PrepareWorkspace(j) ==
  /\ pc[j] = "workspace"
  /\ workspaceId' = [workspaceId EXCEPT ![j] = WorkspaceName(projectId(j), now)]
  /\ ws' = [ws EXCEPT ![j] = TRUE]
  /\ now' = now
  /\ \E ok \in BOOLEAN :
       IF ok
       THEN /\ progress' = [progress EXCEPT ![j] = 40]
            /\ pc' = [pc EXCEPT ![j] = "alloc"]
            /\ scan' = [scan EXCEPT ![j] = LEAN_STREAMING_PORT_BASE]
            /\ UNCHANGED <<ret, err>>
       ELSE /\ ret' = [ret EXCEPT ![j] = "throw"]
            /\ err' = [err EXCEPT ![j] = E_STEP]
            /\ pc' = [pc EXCEPT ![j] = "finally"]
            /\ UNCHANGED <<progress, scan>>
  /\ UNCHANGED <<lease, node, got, cs, call, status, errorMessage, queueVars,
                 poller, procEnd, artifact, inflight, cleanupErr, abortVars, cfgVars, cacheVars, streamVars, apiVars, ledgerVars>>

\* if (streamingPort) { createStreamingSubscriber } else { console.warn };
\* either way the run goes on to onProgress(45).
AfterAllocation_Fatal(p) == IF p = NoPort THEN "finally" ELSE "subscribe"
AfterAllocation(p) == "subscribe"

\* allocateStreamingPort: one iteration of the loop of allocatePort, called
\* with the default workerId.  null when the range is exhausted.
allocateStreamingPort(j) ==
  /\ pc[j] = "alloc"
  /\ LET p == scan[j]
         w == DefaultWorkerId(node[j])
     IN /\ lease' = SetNxEx(lease, p, w, j)
        /\ IF SetNxAcquired(lease, p)
           THEN /\ got' = [got EXCEPT ![j] = p]
                /\ scan' = [scan EXCEPT ![j] = NoPort]
                /\ pc' = [pc EXCEPT ![j] = AfterAllocation(p)]
           ELSE /\ got' = got
                /\ IF p < LEAN_STREAMING_PORT_MAX
                   THEN /\ scan' = [scan EXCEPT ![j] = p + 1]
                        /\ pc' = pc
                   ELSE /\ scan' = [scan EXCEPT ![j] = NoPort]
                        /\ pc' = [pc EXCEPT ![j] = AfterAllocation(NoPort)]
  /\ UNCHANGED <<node, cs, call, dbVars, queueVars, ret, err, poller, ws,
                 procEnd, artifact, inflight, cleanupErr, abortVars, cfgVars, cacheVars, streamVars, wsVars, apiVars, ledgerVars>>

\* createStreamingSubscriber when a port was allocated, onProgress(45), the
\* config file, onProgress(50).  Connecting or writing may throw.
Subscribe(j) ==
  /\ pc[j] = "subscribe"
  /\ \E ok \in BOOLEAN :
       IF ok
       THEN /\ progress' = [progress EXCEPT ![j] = 50]
            /\ pc' = [pc EXCEPT ![j] = "spawn"]
            /\ UNCHANGED <<ret, err>>
       ELSE /\ ret' = [ret EXCEPT ![j] = "throw"]
            /\ err' = [err EXCEPT ![j] = E_STEP]
            /\ pc' = [pc EXCEPT ![j] = "finally"]
            /\ UNCHANGED progress
  /\ UNCHANGED <<portVars, status, errorMessage, queueVars, poller, ws,
                 procEnd, artifact, inflight, cleanupErr, abortVars, cfgVars, cacheVars, streamVars, wsVars, apiVars, ledgerVars>>

\* setInterval of the result poller, then spawn('docker', ...) inside the
\* promise executor.  spawn may throw synchronously, which rejects the promise.
Spawn(j) ==
  /\ pc[j] = "spawn"
  /\ poller' = [poller EXCEPT ![j] = TRUE]
  /\ \E ok \in BOOLEAN :
       IF ok
       THEN /\ pc' = [pc EXCEPT ![j] = "proc"]
            /\ UNCHANGED <<ret, err>>
       ELSE /\ ret' = [ret EXCEPT ![j] = "throw"]
            /\ err' = [err EXCEPT ![j] = E_STEP]
            /\ pc' = [pc EXCEPT ![j] = "finally"]
  /\ UNCHANGED <<portVars, dbVars, queueVars, ws, procEnd, artifact,
                 inflight, cleanupErr, abortVars, cfgVars, cacheVars, streamVars, wsVars, apiVars, ledgerVars>>

\* proc.stdout.on('data'): the progress writes of a chunk are sent, not awaited.
StdoutData(j) ==
  /\ pc[j] = "proc"
  /\ \E ds \in AtMostOne(DatePercents), throttled \in BOOLEAN,
        ms \in AtMostOne(MarkerPercents) :
       LET w == ChunkWrites(ds, throttled, ms)
       IN /\ w # {}
          /\ Cardinality(inflight[j] \cup w) <= MaxInflight
          /\ inflight' = [inflight EXCEPT ![j] = @ \cup w]
  /\ UNCHANGED <<portVars, dbVars, queueVars, pc, ret, err, poller, ws,
                 procEnd, artifact, cleanupErr, abortVars, cfgVars, cacheVars, streamVars, wsVars, apiVars, ledgerVars>>

\* A progress write that was not awaited reaches the database.
ApplyProgressWrite(j) ==
  /\ \E v \in inflight[j] :
       /\ progress' = [progress EXCEPT ![j] = v]
       /\ inflight' = [inflight EXCEPT ![j] = @ \ {v}]
  /\ UNCHANGED <<portVars, status, errorMessage, queueVars, pc, ret, err,
                 poller, ws, procEnd, artifact, cleanupErr, abortVars, cfgVars, cacheVars, streamVars, wsVars, apiVars, ledgerVars>>

\* proc.on('close') or proc.on('error') resolves the promise; the run resumes
\* and clears the result poller.
ProcExit(j) ==
  /\ pc[j] = "proc"
  /\ \E how \in ProcEnds, parses \in BOOLEAN :
       /\ (how \in {"exitN", "error"} => ~parses)
       /\ procEnd' = [procEnd EXCEPT ![j] = how]
       /\ artifact' = [artifact EXCEPT ![j] = parses]
  /\ poller' = [poller EXCEPT ![j] = FALSE]
  /\ pc' = [pc EXCEPT ![j] = "exited"]
  /\ UNCHANGED <<portVars, dbVars, queueVars, ret, err, ws, inflight,
                 cleanupErr, abortVars, cfgVars, cacheVars, streamVars, wsVars, apiVars, ledgerVars>>

\* await onProgress(90), then the result of the try block: a non-zero code
\* fails, a zero code parses main.json.
EvaluateResult(j) ==
  /\ pc[j] = "exited"
  /\ progress' = [progress EXCEPT ![j] = 90]
  /\ IF ResultCode(procEnd[j]) # 0
     THEN /\ ret' = [ret EXCEPT ![j] = "fail"]
          /\ err' = [err EXCEPT ![j] = E_EXIT]
     ELSE IF artifact[j]
          THEN /\ ret' = [ret EXCEPT ![j] = "success"]
               /\ err' = err
          ELSE /\ ret' = [ret EXCEPT ![j] = "fail"]
               /\ err' = [err EXCEPT ![j] = E_PARSE]
  /\ pc' = [pc EXCEPT ![j] = "finally"]
  /\ UNCHANGED <<portVars, status, errorMessage, queueVars, poller, ws,
                 procEnd, artifact, inflight, cleanupErr, abortVars, cfgVars, cacheVars, streamVars, wsVars, apiVars, ledgerVars>>

\* finally: the socket is closed (errors caught), then
\* if (streamingPort) await releaseStreamingPort(streamingPort), outside any
\* try: a rejection leaves the finally block at once.
ReleaseInFinally(j) ==
  /\ pc[j] = "finally"
  /\ IF got[j] # NoPort
     THEN \E ok \in BOOLEAN :
            IF ok
            THEN /\ lease' = ReleaseScript(lease, got[j], DefaultWorkerId(node[j]))
                 /\ pc' = [pc EXCEPT ![j] = "rm"]
                 /\ cleanupErr' = cleanupErr
            ELSE /\ lease' = lease
                 /\ pc' = [pc EXCEPT ![j] = "returned"]
                 /\ cleanupErr' = [cleanupErr EXCEPT ![j] = @ \cup {"release"}]
     ELSE /\ pc' = [pc EXCEPT ![j] = "rm"]
          /\ UNCHANGED <<lease, cleanupErr>>
  /\ UNCHANGED <<node, scan, got, cs, call, dbVars, queueVars, ret, err,
                 poller, ws, procEnd, artifact, inflight, abortVars, cfgVars, cacheVars, streamVars, wsVars, apiVars, ledgerVars>>

\* finally: fs.rm of the workspace unless LEAN_KEEP_TEMP, its error caught.
\* The directory goes for every run that was given the same name.
RemoveWorkspace(j) ==
  /\ pc[j] = "rm"
  /\ IF keepTemp
     THEN UNCHANGED <<ws, cleanupErr>>
     ELSE \E ok \in BOOLEAN :
            IF ok
            THEN /\ ws' = [k \in Jobs |-> IF workspaceId[k] = workspaceId[j]
                                           THEN FALSE ELSE ws[k]]
                 /\ cleanupErr' = cleanupErr
            ELSE /\ ws' = ws
                 /\ cleanupErr' = [cleanupErr EXCEPT ![j] = @ \cup {"rm"}]
  /\ pc' = [pc EXCEPT ![j] = "returned"]
  /\ UNCHANGED <<portVars, dbVars, queueVars, ret, err, poller, procEnd,
                 artifact, inflight, abortVars, cfgVars, cacheVars, streamVars, wsVars, apiVars, ledgerVars>>

\* An exception leaves runLeanBacktest when its try block threw or when the
\* finally block threw.
RunThrew(j) == ret[j] = "throw" \/ "release" \in cleanupErr[j]

\* processBacktest after runLeanBacktest: an exception goes to the catch
\* block; otherwise updateProgress(95) and the check of result.success.
AfterRun(j) ==
  /\ pc[j] = "returned"
  /\ IF RunThrew(j)
     THEN /\ err' = [err EXCEPT ![j] =
                       IF "release" \in cleanupErr[j] THEN E_RELEASE ELSE @]
          /\ pc' = [pc EXCEPT ![j] = "catch"]
          /\ progress' = progress
     ELSE /\ progress' = [progress EXCEPT ![j] = 95]
          /\ err' = err
          /\ pc' = [pc EXCEPT ![j] = IF ret[j] = "success" THEN "complete" ELSE "catch"]
  /\ UNCHANGED <<portVars, status, errorMessage, queueVars, ret, poller, ws,
                 procEnd, artifact, inflight, cleanupErr, abortVars, cfgVars, cacheVars, streamVars, wsVars, apiVars, ledgerVars>>

\* UPDATE qc_backtests SET status = 'completed', progress = 100, ...
StoreCompleted(j) ==
  /\ pc[j] = "complete"
  /\ status' = UpdateRow(status, j, "completed")
  /\ progress' = UpdateRow(progress, j, 100)
  /\ pc' = [pc EXCEPT ![j] = "usageDone"]
  /\ UNCHANGED <<portVars, errorMessage, queueVars, ret, err, poller, ws,
                 procEnd, artifact, inflight, cleanupErr, abortVars, cfgVars, cacheVars, streamVars, wsVars, apiVars,
                 ledgerVars>>

\* catch: UPDATE qc_backtests SET status = 'error', error_message.
StoreError(j) ==
  /\ pc[j] = "catch"
  /\ status' = UpdateRow(status, j, "error")
  /\ errorMessage' = UpdateRow(errorMessage, j, err[j])
  /\ pc' = [pc EXCEPT ![j] = "usageErr"]
  /\ UNCHANGED <<portVars, progress, queueVars, ret, err, poller, ws,
                 procEnd, artifact, inflight, cleanupErr, abortVars, cfgVars, cacheVars, streamVars, wsVars, apiVars,
                 ledgerVars>>

\* ------------------------------------------------ usage ledger, worker side

\* INSERT INTO usage_tracking (...) VALUES (..., 'queued', NOW())
NewUsageRecord ==
  [status |-> "queued", age |-> 0, cid |-> FALSE, cs |-> FALSE,
   msg |-> "", stamp |-> 0]

\* Outcomes of a usage_tracking statement: it may fail while faults remain.
Outcomes == IF faults > 0 THEN {TRUE, FALSE} ELSE {TRUE}

Spend(ok) == IF ok THEN faults ELSE faults - 1

\* catch (err) { console.warn(...) } of the usage block: processing goes on
\* with the UPDATE that sets the job running.
AfterCreateUsage_Fatal(created) == IF created THEN "start" ELSE "catch"
AfterCreateUsage(created) == "start"

\* try { usageTrackingId = await createUsageRecord(...);
\*       await linkBacktestToUsage(backtestId, usageTrackingId) } catch { warn }
\* Every invocation of processBacktest inserts a row of its own.
CreateUsage(j) ==
  /\ pc[j] = "usage"
  /\ \E created \in Outcomes :
       IF created
       THEN /\ usage' = [usage EXCEPT ![j] = Append(@, NewUsageRecord)]
            /\ uid' = [uid EXCEPT ![j] = Len(usage[j]) + 1]
            /\ \E linked \in Outcomes :
                 /\ link' = [link EXCEPT ![j] = IF linked THEN Len(usage[j]) + 1 ELSE @]
                 /\ faults' = Spend(linked)
            /\ pc' = [pc EXCEPT ![j] = AfterCreateUsage(created)]
       ELSE /\ faults' = Spend(created)
            /\ UNCHANGED <<usage, uid, link>>
            /\ pc' = [pc EXCEPT ![j] = AfterCreateUsage(created)]
  /\ UNCHANGED <<portVars, dbVars, queueVars, ret, err, poller, ws, procEnd,
                 artifact, inflight, cleanupErr, abortVars, cfgVars, cacheVars, streamVars, wsVars, apiVars, rec, led>>

\* UPDATE usage_tracking SET status = 'running', started_at = NOW(),
\* container_id = $2: the worker passes no containerId, so null is stored.
MarkedRunning(r) == [r EXCEPT !.status = "running", !.age = 0, !.cid = FALSE]

\* if (usageTrackingId) await markUsageRunning(usageTrackingId).catch(() => {})
MarkUsage(j) ==
  /\ pc[j] = "mark"
  /\ IF uid[j] # NoUsage
     THEN \E ok \in Outcomes :
            /\ usage' = [usage EXCEPT ![j][uid[j]] = IF ok THEN MarkedRunning(@) ELSE @]
            /\ faults' = Spend(ok)
     ELSE UNCHANGED <<usage, faults>>
  /\ pc' = [pc EXCEPT ![j] = "creds"]
  /\ UNCHANGED <<portVars, dbVars, queueVars, ret, err, poller, ws, procEnd,
                 artifact, inflight, cleanupErr, abortVars, cfgVars, cacheVars, streamVars, wsVars, apiVars, uid, link,
                 rec, led>>

\* UPDATE usage_tracking SET status = $2, completed_at = NOW(),
\* compute_seconds = $3, ..., error_message = $8 WHERE id = $1
Completed(r, st) ==
  [r EXCEPT !.status = st, !.cs = TRUE, !.stamp = @ + 1,
            !.msg = IF st = "error" THEN "job" ELSE ""]

\* The retry policy of the queue: a failed job is queued again while
\* attemptsMade is below defaultJobOptions.attempts.
Requeues_Always(made) == TRUE
Requeues(made) == made < QueueAttempts

\* if (usageTrackingId) await completeUsageRecord({...}).catch(...), at the
\* end of the try block and of the catch block; then processBacktest returns,
\* or rethrows and the queue re-queues the job while attemptsMade < attempts.
CompleteUsage(j) ==
  /\ pc[j] \in {"usageDone", "usageErr"}
  /\ LET st == IF pc[j] = "usageDone" THEN "completed" ELSE "error"
     IN IF uid[j] # NoUsage
        THEN \E ok \in Outcomes :
               /\ usage' = [usage EXCEPT ![j][uid[j]] = IF ok THEN Completed(@, st) ELSE @]
               /\ faults' = Spend(ok)
        ELSE UNCHANGED <<usage, faults>>
  /\ queued' = [queued EXCEPT ![j] =
                  IF pc[j] = "usageErr" THEN Requeues(attempts[j]) ELSE @]
  /\ uid' = [uid EXCEPT ![j] = NoUsage]
  /\ pc' = [pc EXCEPT ![j] = "idle"]
  /\ LocalsDropped(j)
  /\ UNCHANGED <<lease, node, scan, cs, call, dbVars, attempts, runs, inflight,
                 abortVars, cfgVars, cacheVars, streamVars, apiVars, link, rec, led>>

\* POST /abort: the job record is read and its status checked; 404 without a
\* record, 400 unless the status is running or queued.
AbortCheck(j) ==
  /\ ab[j] = "idle"
  /\ aborts < MaxAborts
  /\ aborts' = aborts + 1
  /\ ab' = [ab EXCEPT ![j] = IF status[j] \in {"running", "queued"}
                              THEN "checked" ELSE "idle"]
  /\ UNCHANGED <<portVars, dbVars, queueVars, runVars, cfgVars, cacheVars, streamVars, wsVars, apiVars, ledgerVars>>

\* POST /abort: UPDATE qc_backtests SET status = 'error', 'Aborted by user'.
AbortUpdate(j) ==
  /\ ab[j] = "checked"
  /\ status' = [status EXCEPT ![j] = "error"]
  /\ errorMessage' = [errorMessage EXCEPT ![j] = E_ABORT]
  /\ ab' = [ab EXCEPT ![j] = "updated"]
  /\ UNCHANGED <<portVars, progress, queueVars, runVars, aborts, cfgVars, cacheVars, streamVars, wsVars, apiVars, ledgerVars>>

\* job.remove(): the entry of job j leaves the queue.
RemoveFromQueue_Kept(q, j) == q
RemoveFromQueue(q, j) == [q EXCEPT ![j] = FALSE]

\* POST /abort: queue.getJob and job.remove; removing a job that a worker is
\* processing throws, which is caught.
AbortRemove(j) ==
  /\ ab[j] = "updated"
  /\ queued' = RemoveFromQueue(queued, j)
  /\ ab' = [ab EXCEPT ![j] = "idle"]
  /\ UNCHANGED <<portVars, dbVars, attempts, runs, runVars, aborts, cfgVars, cacheVars, streamVars, wsVars, apiVars, ledgerVars>>

\* --------------------------------------------- usage ledger, maintenance

\* The rows of usage_tracking, each named by its job and its position.
UsageIds == {u \in Jobs \X (1..QueueAttempts) : u[2] \in DOMAIN usage[u[1]]}

\* Time passes: the running rows grow older by AgeStep minutes.
Age ==
  /\ \E u \in UsageIds :
       /\ usage[u[1]][u[2]].status = "running"
       /\ usage[u[1]][u[2]].age < MaxRecordAge
  /\ usage' = [j \in Jobs |->
                 [i \in DOMAIN usage[j] |->
                    IF usage[j][i].status = "running" /\ usage[j][i].age < MaxRecordAge
                    THEN [usage[j][i] EXCEPT !.age = @ + AgeStep]
                    ELSE usage[j][i]]]
  /\ UNCHANGED <<portVars, dbVars, queueVars, runVars, abortVars, cfgVars, cacheVars, streamVars, wsVars, apiVars,
                 uid, link, faults, rec, led>>

\* UPDATE usage_tracking SET status = 'aborted', completed_at = NOW(),
\* error_message = ...
Aborted(r, why) == [r EXCEPT !.status = "aborted", !.stamp = @ + 1, !.msg = why]

\* WHERE status = 'running' AND started_at < NOW() - ($1 || ' minutes')::interval
SweepSelects_AnyAge(r, m) == r.status = "running"
SweepSelects(r, m) == r.status = "running" /\ r.age > m

\* abortStaleJobs(maxAgeMinutes), called by startPeriodicCleanup with 30: one
\* UPDATE statement.
abortStaleJobs(m) ==
  /\ led.n < MaxLedgerOps
  /\ usage' = [j \in Jobs |->
                 [i \in DOMAIN usage[j] |->
                    IF SweepSelects(usage[j][i], m)
                    THEN Aborted(usage[j][i], "timeout")
                    ELSE usage[j][i]]]
  /\ led' = [op |-> "sweep", arg |-> "", res |-> "", n |-> led.n + 1]
  /\ UNCHANGED <<portVars, dbVars, queueVars, runVars, abortVars, cfgVars, cacheVars, streamVars, wsVars, apiVars,
                 uid, link, faults, rec>>

\* SELECT ... FROM usage_tracking WHERE status = 'running'
OrphanSelects_All(r) == TRUE
OrphanSelects(r) == r.status = "running"

\* cleanupOrphanedJobs: the SELECT of the running rows.
cleanupOrphanedJobsBegin ==
  /\ rec.pc = "idle"
  /\ led.n < MaxLedgerOps
  /\ rec' = [rec EXCEPT !.pc = "loop",
                        !.todo = {u \in UsageIds : OrphanSelects(usage[u[1]][u[2]])}]
  /\ led' = [op |-> "orphan", arg |-> "", res |-> "", n |-> led.n + 1]
  /\ UNCHANGED <<portVars, dbVars, queueVars, runVars, abortVars, cfgVars, cacheVars, streamVars, wsVars, apiVars,
                 usage, uid, link, faults>>

\* The docker process of the run that created row u is running.
ProcessAlive(u) == pc[u[1]] = "proc" /\ uid[u[1]] = u[2]

\* if (job.container_id) { docker inspect ...; if running and older than 30
\* minutes: docker kill, containerRunning = false }; without a container_id
\* containerRunning stays false.
ContainerRunning(u) ==
  /\ usage[u[1]][u[2]].cid
  /\ ProcessAlive(u)
  /\ ~(usage[u[1]][u[2]].age > STALE_MINUTES)

\* cleanupOrphanedJobs: one iteration of the loop over the selected rows, with
\* the UPDATE ... WHERE id = $1 of a row found without a running container;
\* the call returns when the rows are used up.
cleanupOrphanedJobsStep ==
  /\ rec.pc = "loop"
  /\ IF rec.todo = {}
     THEN /\ rec' = [rec EXCEPT !.pc = "idle", !.runs = @ + 1]
          /\ usage' = usage
     ELSE \E u \in rec.todo :
            /\ rec' = [rec EXCEPT !.todo = @ \ {u}]
            /\ usage' = IF ContainerRunning(u)
                        THEN usage
                        ELSE [usage EXCEPT ![u[1]][u[2]] = Aborted(@, "orphan")]
  /\ UNCHANGED <<portVars, dbVars, queueVars, runVars, abortVars, cfgVars, cacheVars, streamVars, wsVars, apiVars,
                 uid, link, faults, led>>

\* What SELECT * FROM can_user_run_job($1, $2) gives: a row that allows, a row
\* that denies, no row, or a rejected query.
QuotaLookups == {"allowed", "denied", "norow", "throws"}

\* canUserRunJob: the row when there is one, allowed when there is none; a
\* rejection of queryOne is not caught.
CanUserRunJob(lookup) ==
  CASE lookup = "norow" -> "allowed"
    [] lookup = "throws" -> "raise"
    [] OTHER -> lookup

canUserRunJob ==
  /\ led.n < MaxLedgerOps
  /\ \E l \in QuotaLookups :
       led' = [op |-> "quota", arg |-> l, res |-> CanUserRunJob(l), n |-> led.n + 1]
  /\ UNCHANGED <<portVars, dbVars, queueVars, runVars, abortVars, cfgVars, cacheVars, streamVars, wsVars, apiVars,
                 usage, uid, link, faults, rec>>

\* A millisecond passes.
ClockTick ==
  /\ now < MaxNow
  /\ now' = now + 1
  /\ UNCHANGED <<portVars, dbVars, queueVars, runVars, abortVars, cfgVars,
                 ledgerVars, cacheVars, streamVars, workspaceId, apiVars>>

\* The jobs of S have been submitted (record 'queued', entry in the queue);
\* the queue may start r invocations of the processor; the owners of the
\* jobs of C have brokerage credentials.
InitJobs(S, r, C) ==
  /\ lease = [p \in Ports |-> NoLease]
  /\ node = [j \in Jobs |-> "n1"]
  /\ scan = [j \in Jobs |-> NoPort]
  /\ got = [j \in Jobs |-> NoPort]
  /\ cs = [n \in Nodes |-> CsIdle]
  /\ call = NoCall
  /\ status = [j \in Jobs |-> IF j \in S THEN "queued" ELSE "none"]
  /\ queued = [j \in Jobs |-> j \in S]
  /\ tx = [j \in Jobs |-> IF j \in S THEN "committed" ELSE "none"]
  /\ JobsAtRest
  /\ runs = r
  /\ creds \in {[j \in Jobs |-> j \in c] : c \in C}
  /\ keepTemp \in BOOLEAN

\* One job from submission to the end of its last attempt.
Init == InitJobs({"j1"}, QueueAttempts, {{}, {"j1"}}) /\ InitUsage(0) /\
  InitCache({UTC}, {NoMerge}) /\ InitStream

Next ==
  \/ \E j \in Jobs, n \in Nodes : Pickup(j, n)
  \/ \E j \in Jobs : CreateUsage(j)
  \/ \E j \in Jobs : SetRunning(j)
  \/ \E j \in Jobs : MarkUsage(j)
  \/ \E j \in Jobs : ResolveCredentials(j)
  \/ \E j \in Jobs : LoadFiles(j)
  \/ \E j \in Jobs : PrepareWorkspace(j)
  \/ \E j \in Jobs : allocateStreamingPort(j)
  \/ \E j \in Jobs : Subscribe(j)
  \/ \E j \in Jobs : Spawn(j)
  \/ \E j \in Jobs : StdoutData(j)
  \/ \E j \in Jobs : ApplyProgressWrite(j)
  \/ \E j \in Jobs : ProcExit(j)
  \/ \E j \in Jobs : EvaluateResult(j)
  \/ \E j \in Jobs : ReleaseInFinally(j)
  \/ \E j \in Jobs : RemoveWorkspace(j)
  \/ \E j \in Jobs : AfterRun(j)
  \/ \E j \in Jobs : StoreCompleted(j)
  \/ \E j \in Jobs : StoreError(j)
  \/ \E j \in Jobs : CompleteUsage(j)
  \/ \E j \in Jobs : AbortCheck(j)
  \/ \E j \in Jobs : AbortUpdate(j)
  \/ \E j \in Jobs : AbortRemove(j)
  \/ Tick

Spec == Init /\ [][Next]_vars

\* Two submitted jobs, whose owners have credentials, share the worker pool
\* and the port range; no abort request arrives and the engine prints no
\* progress lines.
InitPool == InitJobs(Jobs, MaxPoolRuns, {Jobs}) /\ InitUsage(0) /\
  InitCache({UTC}, {NoMerge}) /\ InitStream

NextPool ==
  \/ \E j \in Jobs, n \in Nodes : Pickup(j, n)
  \/ \E j \in Jobs : CreateUsage(j)
  \/ \E j \in Jobs : SetRunning(j)
  \/ \E j \in Jobs : MarkUsage(j)
  \/ \E j \in Jobs : ResolveCredentials(j)
  \/ \E j \in Jobs : LoadFiles(j)
  \/ \E j \in Jobs : PrepareWorkspace(j)
  \/ \E j \in Jobs : allocateStreamingPort(j)
  \/ \E j \in Jobs : Subscribe(j)
  \/ \E j \in Jobs : Spawn(j)
  \/ \E j \in Jobs : ProcExit(j)
  \/ \E j \in Jobs : EvaluateResult(j)
  \/ \E j \in Jobs : ReleaseInFinally(j)
  \/ \E j \in Jobs : RemoveWorkspace(j)
  \/ \E j \in Jobs : AfterRun(j)
  \/ \E j \in Jobs : StoreCompleted(j)
  \/ \E j \in Jobs : StoreError(j)
  \/ \E j \in Jobs : CompleteUsage(j)
  \/ Tick

SpecPool == InitPool /\ [][NextPool]_vars

\* One job and its usage rows: the worker, the passing of time, the periodic
\* sweep and the reconciliation at startup; no abort request arrives and the
\* engine prints no progress lines.
InitLedger == InitJobs({"j1"}, MaxLedgerRuns, {{"j1"}}) /\ InitUsage(MaxFaults) /\
  InitCache({UTC}, {NoMerge}) /\ InitStream

NextLedger ==
  \/ \E j \in Jobs, n \in Nodes : Pickup(j, n)
  \/ \E j \in Jobs : CreateUsage(j)
  \/ \E j \in Jobs : SetRunning(j)
  \/ \E j \in Jobs : MarkUsage(j)
  \/ \E j \in Jobs : ResolveCredentials(j)
  \/ \E j \in Jobs : LoadFiles(j)
  \/ \E j \in Jobs : PrepareWorkspace(j)
  \/ \E j \in Jobs : allocateStreamingPort(j)
  \/ \E j \in Jobs : Subscribe(j)
  \/ \E j \in Jobs : Spawn(j)
  \/ \E j \in Jobs : ProcExit(j)
  \/ \E j \in Jobs : EvaluateResult(j)
  \/ \E j \in Jobs : ReleaseInFinally(j)
  \/ \E j \in Jobs : RemoveWorkspace(j)
  \/ \E j \in Jobs : AfterRun(j)
  \/ \E j \in Jobs : StoreCompleted(j)
  \/ \E j \in Jobs : StoreError(j)
  \/ \E j \in Jobs : CompleteUsage(j)
  \/ Age
  \/ abortStaleJobs(STALE_MINUTES)
  \/ cleanupOrphanedJobsBegin
  \/ cleanupOrphanedJobsStep

SpecLedger == InitLedger /\ [][NextLedger]_vars

\* The quota check is called while a worker processes one job.
InitQuota == InitJobs({"j1"}, MaxLedgerRuns, {{"j1"}}) /\ InitUsage(0) /\
  InitCache({UTC}, {NoMerge}) /\ InitStream

NextQuota ==
  \/ \E j \in Jobs, n \in Nodes : Pickup(j, n)
  \/ \E j \in Jobs : CreateUsage(j)
  \/ \E j \in Jobs : SetRunning(j)
  \/ \E j \in Jobs : MarkUsage(j)
  \/ \E j \in Jobs : ResolveCredentials(j)
  \/ \E j \in Jobs : LoadFiles(j)
  \/ \E j \in Jobs : PrepareWorkspace(j)
  \/ \E j \in Jobs : allocateStreamingPort(j)
  \/ \E j \in Jobs : Subscribe(j)
  \/ \E j \in Jobs : Spawn(j)
  \/ \E j \in Jobs : ProcExit(j)
  \/ \E j \in Jobs : EvaluateResult(j)
  \/ \E j \in Jobs : ReleaseInFinally(j)
  \/ \E j \in Jobs : RemoveWorkspace(j)
  \/ \E j \in Jobs : AfterRun(j)
  \/ \E j \in Jobs : StoreCompleted(j)
  \/ \E j \in Jobs : StoreError(j)
  \/ \E j \in Jobs : CompleteUsage(j)
  \/ canUserRunJob

SpecQuota == InitQuota /\ [][NextQuota]_vars

\* One submitted job and the retry policy: the queue could start more
\* invocations than the policy allows; no abort request arrives and the
\* engine prints no progress lines.
InitRetry == InitJobs({"j1"}, MaxRetryRuns, {{}, {"j1"}}) /\ InitUsage(0) /\
  InitCache({UTC}, {NoMerge}) /\ InitStream

NextRetry ==
  \/ \E j \in Jobs, n \in Nodes : Pickup(j, n)
  \/ \E j \in Jobs : CreateUsage(j)
  \/ \E j \in Jobs : SetRunning(j)
  \/ \E j \in Jobs : MarkUsage(j)
  \/ \E j \in Jobs : ResolveCredentials(j)
  \/ \E j \in Jobs : LoadFiles(j)
  \/ \E j \in Jobs : PrepareWorkspace(j)
  \/ \E j \in Jobs : allocateStreamingPort(j)
  \/ \E j \in Jobs : Subscribe(j)
  \/ \E j \in Jobs : Spawn(j)
  \/ \E j \in Jobs : ProcExit(j)
  \/ \E j \in Jobs : EvaluateResult(j)
  \/ \E j \in Jobs : ReleaseInFinally(j)
  \/ \E j \in Jobs : RemoveWorkspace(j)
  \/ \E j \in Jobs : AfterRun(j)
  \/ \E j \in Jobs : StoreCompleted(j)
  \/ \E j \in Jobs : StoreError(j)
  \/ \E j \in Jobs : CompleteUsage(j)

SpecRetry == InitRetry /\ [][NextRetry]_vars

\* The steps of processBacktest after the pickup.
WorkerStep(j) ==
  \/ CreateUsage(j)
  \/ SetRunning(j)
  \/ MarkUsage(j)
  \/ ResolveCredentials(j)
  \/ LoadFiles(j)
  \/ PrepareWorkspace(j)
  \/ allocateStreamingPort(j)
  \/ Subscribe(j)
  \/ Spawn(j)
  \/ ProcExit(j)
  \/ EvaluateResult(j)
  \/ ReleaseInFinally(j)
  \/ RemoveWorkspace(j)
  \/ AfterRun(j)
  \/ StoreCompleted(j)
  \/ StoreError(j)
  \/ CompleteUsage(j)

\* Two submitted jobs of one project, whose owners have credentials, are
\* processed while the clock advances; no lease expires meanwhile.
NextWorkspace ==
  \/ \E j \in Jobs, n \in Nodes : Pickup(j, n)
  \/ \E j \in Jobs : WorkerStep(j)
  \/ ClockTick

SpecWorkspace == InitPool /\ [][NextWorkspace]_vars

\* --------------------------------------------------------- POST /create

\* The backtests a client creates: backtestId = uuidv4().
NewJobs == {"j1"}

\* transaction(): BEGIN and the INSERT of the record with status 'queued';
\* the row is not visible to other connections before the COMMIT.  An error
\* leads to ROLLBACK.
createInsert(j) ==
  /\ tx[j] = "none"
  /\ status[j] = "none"
  /\ \E ok \in BOOLEAN :
       tx' = [tx EXCEPT ![j] = IF ok THEN "inserted" ELSE "rolledback"]
  /\ UNCHANGED <<portVars, dbVars, queueVars, runVars, abortVars, cfgVars,
                 ledgerVars, cacheVars, streamVars, wsVars, md>>

\* queue.add('backtest', {...}, {jobId: backtestId}) inside the transaction
\* callback: the entry is in the queue at once; a rejection leads to ROLLBACK.
createQueueAdd(j) ==
  /\ tx[j] = "inserted"
  /\ \E ok \in BOOLEAN :
       /\ queued' = [queued EXCEPT ![j] = ok]
       /\ tx' = [tx EXCEPT ![j] = IF ok THEN "added" ELSE "rolledback"]
  /\ UNCHANGED <<portVars, dbVars, attempts, runs, runVars, abortVars, cfgVars,
                 ledgerVars, cacheVars, streamVars, wsVars, md>>

\* client.query('COMMIT'): the record becomes visible; when it fails the
\* catch block sends ROLLBACK and the record is gone.
createCommit(j) ==
  /\ tx[j] = "added"
  /\ \E ok \in BOOLEAN :
       IF ok
       THEN /\ status' = [status EXCEPT ![j] = "queued"]
            /\ progress' = [progress EXCEPT ![j] = 0]
            /\ errorMessage' = [errorMessage EXCEPT ![j] = ""]
            /\ tx' = [tx EXCEPT ![j] = "committed"]
       ELSE /\ tx' = [tx EXCEPT ![j] = "rolledback"]
            /\ UNCHANGED dbVars
  /\ UNCHANGED <<portVars, queueVars, runVars, abortVars, cfgVars,
                 ledgerVars, cacheVars, streamVars, wsVars, md>>

\* A client creates a backtest while the workers take jobs from the queue.
InitSubmit == InitJobs({}, MaxSubmitRuns, {{"j1"}}) /\ InitUsage(0) /\
  InitCache({UTC}, {NoMerge}) /\ InitStream

NextSubmit ==
  \/ \E j \in NewJobs : createInsert(j)
  \/ \E j \in NewJobs : createQueueAdd(j)
  \/ \E j \in NewJobs : createCommit(j)
  \/ \E j \in Jobs, n \in Nodes : Pickup(j, n)
  \/ \E j \in Jobs : WorkerStep(j)

SpecSubmit == InitSubmit /\ [][NextSubmit]_vars

\* ------------------------------------------------ ensureMarketDataCached

\* The providers, in the order of getAvailableProviders.
DataProviders == <<"alpha_vantage", "alpaca", "polygon">>
ProviderSet == {DataProviders[i] : i \in DOMAIN DataProviders}

\* preferredProvider: DataProvider = 'alpha_vantage'
preferredProvider == "alpha_vantage"

\* The subsequence of q whose elements are in S.
RECURSIVE Filter(_, _)
Filter(q, S) ==
  IF q = <<>> THEN <<>>
  ELSE (IF Head(q) \in S THEN <<Head(q)>> ELSE <<>>) \o Filter(Tail(q), S)

\* getAvailableProviders(): the providers with a platform key.
getAvailableProviders(env) == Filter(DataProviders, env)

\* [preferred, ...available.filter(p => p !== preferred)]
\*   .filter(p => available.includes(p) || p === preferred)
providerOrder(env) ==
  Filter(<<preferredProvider>> \o
           Filter(getAvailableProviders(env), ProviderSet \ {preferredProvider}),
         env \cup {preferredProvider})

\* getProviderCredentials: the user's key, else the platform's, else null.
HasProviderCredentials(p) == p \in md.user \/ p \in md.env

\* fetchFromProvider: bars, or null (an error is caught by the fetch
\* function; Polygon is not implemented).
FetchGivesBars(p) == p \in md.works /\ p # "polygon"

\* credentials.ownership: the user's key comes first.
Ownership(p) == IF p \in md.user THEN "user" ELSE "platform"

\* getSymbolInfo(symbol, ownership) against the required range: "none" for
\* no row, "partial" when earlier or later data is needed, else "full".
SymbolInfo(p) == md.info[Ownership(p)]

\* One iteration of for (const provider of providerOrder), or the throw that
\* follows the loop.
ensureMarketDataCached ==
  /\ md.i > 0
  /\ md.out = ""
  /\ LET order == providerOrder(md.env)
     IN IF md.i > Len(order)
        THEN md' = [md EXCEPT !.out = "error"]
        ELSE LET p == order[md.i]
             IN md' = IF ~HasProviderCredentials(p)
                      THEN [md EXCEPT !.i = @ + 1]
                      ELSE IF SymbolInfo(p) = "none"
                      THEN (IF FetchGivesBars(p)
                            THEN [md EXCEPT !.out = "cached", !.by = p]
                            ELSE [md EXCEPT !.i = @ + 1])
                      ELSE IF SymbolInfo(p) = "full"
                      THEN [md EXCEPT !.out = "cached", !.by = p]
                      ELSE (IF FetchGivesBars(p)
                            THEN [md EXCEPT !.out = "cached", !.by = p]
                            ELSE [md EXCEPT !.out = "cached", !.by = p])
  /\ UNCHANGED <<portVars, dbVars, queueVars, runVars, abortVars, cfgVars,
                 ledgerVars, cacheVars, streamVars, wsVars, tx>>

\* A call for a symbol that is not cached, partially cached or fully cached,
\* with any platform keys, user keys and providers that can deliver.
InitProviders ==
  /\ InitJobs({}, 0, {{}}) /\ InitUsage(0) /\ InitCache({UTC}, {NoMerge})
  /\ sse = NoStream
  /\ chan = NoChannel
  /\ md \in [env : SUBSET ProviderSet, user : SUBSET ProviderSet,
             info : [{"user", "platform"} -> {"none", "partial", "full"}], works : SUBSET ProviderSet,
             i : {1}, out : {""}, by : {""}]

SpecProviders == InitProviders /\ [][ensureMarketDataCached]_vars

\* ------------------------------------------------------ the event stream

\* The event pollBacktest sends for the row it read.
ProgressEvent(st) == [type |-> "progress", status |-> st, completed |-> st = "completed"]

\* pollBacktest's return value: stop polling if completed or errored.
PollDone(st) == st = "completed" \/ st = "error"

\* GET /stream/:backtestId: the job record is found (404 otherwise), the
\* headers are written and the initial pollBacktest sends its query.
StreamOpen(j) ==
  /\ sse.phase = "none"
  /\ status[j] # "none"
  /\ sse' = [sse EXCEPT !.phase = "setup", !.job = j, !.client = TRUE,
                        !.polls[1].st = "query"]
  /\ UNCHANGED <<portVars, dbVars, queueVars, runVars, abortVars, cfgVars,
                 ledgerVars, cacheVars, chan, wsVars, apiVars>>

\* The SELECT of a pollBacktest call is answered with the row as it is now.
StreamQuery(k) ==
  /\ sse.polls[k].st = "query"
  /\ sse' = [sse EXCEPT !.polls[k] = [st |-> "emit", snap |-> status[sse.job]]]
  /\ UNCHANGED <<portVars, dbVars, queueVars, runVars, abortVars, cfgVars,
                 ledgerVars, cacheVars, chan, wsVars, apiVars>>

\* A pollBacktest call resumes: sendEvent of the row it read.  After the
\* initial poll the handler ends the response when done, and otherwise sets
\* the polling interval and registers the 'close' listener of the request;
\* the interval callback clears the interval and ends the response when
\* done.
StreamEmit(k) ==
  /\ sse.polls[k].st = "emit"
  /\ LET snap == sse.polls[k].snap
         done == PollDone(snap)
     IN sse' = [sse EXCEPT
                  !.polls[k] = NoPoll,
                  !.last = ProgressEvent(snap),
                  !.seq = 1 - @,
                  !.late = @ \/ ~sse.client,
                  !.phase = IF done THEN "ended" ELSE IF @ = "setup" THEN "run" ELSE @,
                  !.timer = ~done /\ (sse.phase = "setup" \/ @),
                  !.listening = IF sse.phase = "setup" THEN ~done ELSE @]
  /\ UNCHANGED <<portVars, dbVars, queueVars, runVars, abortVars, cfgVars,
                 ledgerVars, cacheVars, chan, wsVars, apiVars>>

\* The interval fires and its callback calls pollBacktest, whether or not
\* the call of the previous tick has returned.
StreamTimer ==
  /\ sse.timer
  /\ \E k \in 1..MaxPolls :
       /\ sse.polls[k].st = "idle"
       /\ \A i \in 1..(k - 1) : sse.polls[i].st # "idle"
       /\ sse' = [sse EXCEPT !.polls[k].st = "query"]
  /\ UNCHANGED <<portVars, dbVars, queueVars, runVars, abortVars, cfgVars,
                 ledgerVars, cacheVars, chan, wsVars, apiVars>>

\* The client closes the connection: the request emits 'close', and the
\* listener, if it is registered by now, clears the interval.
StreamDisconnect ==
  /\ sse.phase \in {"setup", "run"}
  /\ sse.client
  /\ sse' = [sse EXCEPT !.client = FALSE,
                        !.timer = IF sse.listening THEN FALSE ELSE @]
  /\ UNCHANGED <<portVars, dbVars, queueVars, runVars, abortVars, cfgVars,
                 ledgerVars, cacheVars, chan, wsVars, apiVars>>

\* One submitted job, whose owner has credentials, and one client that opens
\* the job's event stream at any moment and may disconnect at any moment.
InitSse == InitJobs({"j1"}, MaxSseRuns, {{"j1"}}) /\ InitUsage(0) /\
  InitCache({UTC}, {NoMerge}) /\ InitStream

NextSse ==
  \/ \E j \in Jobs, n \in Nodes : Pickup(j, n)
  \/ \E j \in Jobs : WorkerStep(j)
  \/ \E j \in Jobs : StreamOpen(j)
  \/ \E k \in 1..MaxPolls : StreamQuery(k)
  \/ \E k \in 1..MaxPolls : StreamEmit(k)
  \/ StreamTimer
  \/ StreamDisconnect

SpecSse == InitSse /\ [][NextSse]_vars

\* The same, when a job that was picked up is processed to the end of the
\* invocation and the polls of an armed interval are made.
SpecSseLive ==
  /\ SpecSse
  /\ WF_vars(\E j \in Jobs : WorkerStep(j))
  /\ WF_vars(StreamTimer \/ \E k \in 1..MaxPolls : StreamQuery(k) \/ StreamEmit(k))

\* ---------------------------------------------------- the chart channel

Series == {"Equity", "Benchmark"}

\* A command or a message joins those sent before it on its connection.
Enqueue_Front(q, m) == <<m>> \o q
Enqueue(q, m) == Append(q, m)

\* The sources of chart updates of a run are active: the streaming socket
\* of an allocated port, or the result poller.
ChartSourceOpen(j) ==
  \/ poller[j]
  \/ got[j] # NoPort /\ pc[j] \in {"spawn", "proc", "exited"}

\* onChartUpdate -> publishChartUpdate(backtestId, update): the PUBLISH
\* command is handed to the publisher connection; the call is not awaited.
publishChartUpdate(j, s) ==
  /\ ChartSourceOpen(j)
  /\ chan.sent < MaxUpdates
  /\ chan' = [chan EXCEPT
                !.sent = @ + 1,
                !.wire = Enqueue(@, [job |-> j, series |-> s, id |-> chan.sent + 1])]
  /\ UNCHANGED <<portVars, dbVars, queueVars, runVars, abortVars, cfgVars,
                 ledgerVars, cacheVars, sse, wsVars, apiVars>>

\* The store executes the oldest PUBLISH command: the message goes to the
\* connection subscribed to its channel, if there is one.
StorePublish ==
  /\ chan.wire # <<>>
  /\ LET m == Head(chan.wire)
     IN chan' = [chan EXCEPT
                   !.wire = Tail(@),
                   !.inbox = IF chan.sub = "subscribed" /\ chan.of = m.job
                             THEN Enqueue(@, m) ELSE @]
  /\ UNCHANGED <<portVars, dbVars, queueVars, runVars, abortVars, cfgVars,
                 ledgerVars, cacheVars, sse, wsVars, apiVars>>

\* subscribeToChartUpdates(backtestId, onUpdate): a new connection sends
\* SUBSCRIBE for the job's channel.
subscribeToChartUpdates(j) ==
  /\ chan.sub = "none"
  /\ chan' = [chan EXCEPT !.sub = "subscribing", !.of = j]
  /\ UNCHANGED <<portVars, dbVars, queueVars, runVars, abortVars, cfgVars,
                 ledgerVars, cacheVars, sse, wsVars, apiVars>>

\* The store executes the SUBSCRIBE command.
StoreSubscribe ==
  /\ chan.sub = "subscribing"
  /\ chan' = [chan EXCEPT !.sub = "subscribed"]
  /\ UNCHANGED <<portVars, dbVars, queueVars, runVars, abortVars, cfgVars,
                 ledgerVars, cacheVars, sse, wsVars, apiVars>>

\* subscriber.on('message'): the oldest message of the connection is parsed
\* and passed to onUpdate.
OnMessage ==
  /\ chan.inbox # <<>>
  /\ chan' = [chan EXCEPT !.inbox = Tail(@), !.seen = Append(@, Head(chan.inbox))]
  /\ UNCHANGED <<portVars, dbVars, queueVars, runVars, abortVars, cfgVars,
                 ledgerVars, cacheVars, sse, wsVars, apiVars>>

\* The cleanup function: unsubscribe and quit.
Unsubscribe ==
  /\ chan.sub \in {"subscribing", "subscribed"}
  /\ chan' = [chan EXCEPT !.sub = "closed"]
  /\ UNCHANGED <<portVars, dbVars, queueVars, runVars, abortVars, cfgVars,
                 ledgerVars, cacheVars, sse, wsVars, apiVars>>

\* One job, whose owner has credentials, publishing chart updates while it
\* runs, and one subscriber of its channel.
InitChart == InitJobs({"j1"}, MaxChartRuns, {{"j1"}}) /\ InitUsage(0) /\
  InitCache({UTC}, {NoMerge}) /\ InitStream

NextChart ==
  \/ \E j \in Jobs, n \in Nodes : Pickup(j, n)
  \/ \E j \in Jobs : WorkerStep(j)
  \/ \E j \in Jobs, s \in Series : publishChartUpdate(j, s)
  \/ StorePublish
  \/ \E j \in Jobs : subscribeToChartUpdates(j)
  \/ StoreSubscribe
  \/ OnMessage
  \/ Unsubscribe

SpecChart == InitChart /\ [][NextChart]_vars

\* ----------------------------------------------------- market-data cache

\* MarketDataDaily, reduced to its date and its closing price.
Bar(t, c) == [date |-> t, close |-> c]

\* Bars with distinct dates, in date order (ORDER BY date ASC, and the sort
\* at the end of mergeBars).
RECURSIVE SortByDate(_)
SortByDate(B) ==
  IF B = {} THEN <<>>
  ELSE LET b == CHOOSE x \in B : \A y \in B : x.date <= y.date
       IN <<b>> \o SortByDate(B \ {b})

\* getDailyBars: the rows of market_data_daily for the days D, each with
\* its DATE column read as a Date (local midnight) and with the price of
\* its day.
getDailyBars(D) == SortByDate({Bar(LocalMidnight(d), d) : d \in D})

\* The days getDailyBars asks the table for: the ISO days of the two Dates.
QueriedDays(start, end) == IsoDay(start)..IsoDay(end)

\* exportMarketDataToCache: one line 'YYYYMMDD 00:00,...' per bar, dated
\* with the ISO day of the bar's date.
exportMarketDataToCache(bars) ==
  [i \in DOMAIN bars |-> [day |-> IsoDay(bars[i].date), close |-> bars[i].close]]

\* readCachedBars: one bar per line, dated new Date(year, month - 1, day).
readCachedBars(z) ==
  [i \in DOMAIN z |-> Bar(LocalMidnight(z[i].day), z[i].close)]

\* getCachedDateRange: null without a zip file; otherwise the dates of the
\* first and of the last line, each as new Date(year, month, day).
HasCachedRange(z) == z # <<>>
FirstDate(z) == LocalMidnight(z[1].day)
LastDate(z) == LocalMidnight(z[Len(z)].day)

\* checkCacheStatus: none without a cached range or without the map and
\* factor files; full when the first cached date is not after requiredStart
\* and the last one not before requiredEnd; partial otherwise.
CacheStatus(z, a, requiredStart, requiredEnd) ==
  IF ~HasCachedRange(z) \/ ~a THEN "none"
  ELSE IF ~(FirstDate(z) > requiredStart) /\ ~(LastDate(z) < requiredEnd) THEN "full"
  ELSE "partial"

\* mergeBars: barMap.set for the existing bars and then for the new ones,
\* keyed by the ISO day of the bar's date; the values of the map, sorted by
\* date.
MergeOrder_NewFirst(existing, newBars) == newBars \o existing
MergeOrder(existing, newBars) == existing \o newBars

BarKey(b) == IsoDay(b.date)

mergeBars(existing, newBars) ==
  LET sets == MergeOrder(existing, newBars)
      keys == {BarKey(sets[i]) : i \in DOMAIN sets}
      last(k) == CHOOSE i \in DOMAIN sets :
                   /\ BarKey(sets[i]) = k
                   /\ \A j \in DOMAIN sets : BarKey(sets[j]) = k => j <= i
  IN SortByDate({sets[last(k)] : k \in keys})

\* checkCacheStatus(symbol, requiredStart, requiredEnd), the two dates as
\* extractDatesFromAlgorithm builds them: new Date(year, month - 1, day).
checkCacheStatus(sym, from, to) ==
  /\ from <= to
  /\ chk' = [sym |-> sym, from |-> from, to |-> to,
             status |-> CacheStatus(zip[sym], aux[sym],
                                    LocalMidnight(from), LocalMidnight(to)),
             seq |-> 1 - chk.seq]
  /\ UNCHANGED <<portVars, dbVars, queueVars, runVars, abortVars, cfgVars,
                 ledgerVars, streamVars, wsVars, apiVars, zip, aux, ensured, ens, tz, mrg>>

\* The early return of ensureSymbolInCache.
SkipsWrite_Never(st) == FALSE
SkipsWrite(st) == st = "full"

\* ensureSymbolInCache(symbol, newBars, requiredStart, requiredEnd), called
\* with the bars getDailyBars found for the two dates: nothing when the
\* status is full; the merge of the cached and the new bars is written when
\* it is partial, the new bars otherwise; the map and factor files are
\* written with the bars, and alone when the status is none and there are no
\* new bars.
ensureSymbolInCache(sym, D, from, to) ==
  /\ from <= to
  /\ ens.n < MaxEnsures
  /\ D \subseteq QueriedDays(LocalMidnight(from), LocalMidnight(to))
  /\ LET st == CacheStatus(zip[sym], aux[sym], LocalMidnight(from), LocalMidnight(to))
         newBars == getDailyBars(D)
         bars == IF st = "partial" THEN mergeBars(readCachedBars(zip[sym]), newBars)
                 ELSE newBars
     IN /\ IF SkipsWrite(st)
           THEN UNCHANGED <<zip, aux>>
           ELSE /\ zip' = [zip EXCEPT ![sym] =
                             IF bars # <<>> THEN exportMarketDataToCache(bars) ELSE @]
                /\ aux' = [aux EXCEPT ![sym] = (bars # <<>>) \/ st # "partial" \/ @]
        /\ ens' = [sym |-> sym, from |-> from, to |-> to, status |-> st,
                   days |-> D, n |-> ens.n + 1]
  /\ ensured' = ensured \cup {<<sym, from, to>>}
  /\ UNCHANGED <<portVars, dbVars, queueVars, runVars, abortVars, cfgVars,
                 ledgerVars, streamVars, wsVars, apiVars, chk, tz, mrg>>

\* The cache on its own, on a server in any of the time zones: calls of
\* ensureSymbolInCache with the bars that getDailyBars found for the
\* required range, and calls of checkCacheStatus.
InitCacheOnly == InitJobs({}, 0, {Jobs}) /\ InitUsage(0) /\
  InitCache(TimeZones, {NoMerge}) /\ InitStream

NextCache ==
  \/ \E sym \in Symbols, from \in Days, to \in Days :
       checkCacheStatus(sym, from, to)
  \/ \E sym \in Symbols, from \in Days, to \in Days, D \in SUBSET (0..MaxDay) :
       ensureSymbolInCache(sym, D, from, to)

SpecCache == InitCacheOnly /\ [][NextCache]_vars

\* --------------------------------------------------------------- mergeBars

\* Bar sets as the cache and the table hold them: date-only values, each
\* the local midnight of a day, with any prices, in any order.
Prices == {10, 11}
RECURSIVE BarSeqs(_)
BarSeqs(n) ==
  IF n = 0 THEN {<<>>}
  ELSE LET shorter == BarSeqs(n - 1)
       IN shorter \cup {Append(q, Bar(LocalMidnight(d), c)) :
                          q \in shorter, d \in Days, c \in Prices}

Merge ==
  /\ ~mrg.done
  /\ mrg' = [mrg EXCEPT !.merged = mergeBars(mrg.existing, mrg.newBars),
                        !.done = TRUE]
  /\ UNCHANGED <<portVars, dbVars, queueVars, runVars, abortVars, cfgVars,
                 ledgerVars, streamVars, wsVars, apiVars, zip, aux, ensured, chk, ens, tz>>

InitMerge ==
  /\ InitJobs({}, 0, {Jobs})
  /\ InitUsage(0)
  /\ InitCache(TimeZones, {[NoMerge EXCEPT !.existing = e, !.newBars = n] :
                             e \in BarSeqs(MaxBars), n \in BarSeqs(MaxBars)})
  /\ InitStream

SpecMerge == InitMerge /\ [][Merge]_vars


\* ====================================================== claims, allocator

\* C1: allocate never hands a port to a caller while a lease on that port
\* exists: whenever allocatePort returns port p to some caller, no key was
\* present on p at that instant, so the earlier holder's lease was gone.
C1_NoDoubleAllocation ==
  [][\A j \in Jobs, p \in Ports :
       (got'[j] = p /\ got[j] # p) =>
         /\ ~Exists(lease, p)
         /\ lease'[p].by = j
         /\ \A q \in Ports \ {p} : lease'[q] = lease[q]]_vars

\* Two callers raced over the range and hold different ports, each under the
\* key its own SET created.
C1_Witness ==
  \E j1, j2 \in Jobs :
    /\ j1 # j2
    /\ got[j1] = LEAN_STREAMING_PORT_BASE
    /\ got[j2] = LEAN_STREAMING_PORT_BASE + 1
    /\ lease[got[j1]].by = j1
    /\ lease[got[j2]].by = j2

\* C3: releasePort called with an identity that does not own the lease
\* changes nothing in the store, and the port stays unavailable to allocate.
C3_ReleaseByNonOwnerIsNoOp ==
  [][(call' # call /\ call'.op = "release"
        /\ ~(Exists(lease, call'.port) /\ lease[call'.port].owner = call'.id))
      => /\ lease' = lease
         /\ (Exists(lease, call'.port) => ~SetNxAcquired(lease', call'.port))]_vars

\* A release was refused on a port that another identity holds.
C3_Witness ==
  /\ call.op = "release"
  /\ ~call.ok
  /\ Exists(lease, call.port)
  /\ lease[call.port].owner # call.id

\* C4: cleanupStalePorts deletes only keys owned by its workerId at the
\* moment of the deletion.
C4_CleanupDeletesOnlyOwn ==
  [][\A n \in Nodes :
       (cs[n].pc = "del" /\ cs'[n] # cs[n] /\ Exists(lease, cs[n].port))
         => lease[cs[n].port].owner = WORKER_NODE(n)]_vars

\* ============================================================= claims, jobs

\* Positions of a run between the allocation of its port and its release.
UsingPort == {"subscribe", "spawn", "proc", "exited", "finally"}

\* C2: while a run uses the streaming port it was allocated, the lease on that
\* port exists, was created for this run and is owned by its worker, and no
\* other run uses the same port.
C2_LeaseHeldWhileInUse ==
  \A j \in Jobs :
    (pc[j] \in UsingPort /\ got[j] # NoPort) =>
      /\ lease[got[j]].by = j
      /\ lease[got[j]].owner = DefaultWorkerId(node[j])
      /\ \A k \in Jobs \ {j} : pc[k] \in UsingPort => got[k] # got[j]

Terminal == {"completed", "error", "aborted"}

\* C5: once the status of a job is Completed, Error or Aborted, no step
\* changes it.
C5_TerminalStatusIsFinal ==
  [][\A j \in Jobs : status[j] \in Terminal => status'[j] = status[j]]_vars

\* C6: a job becomes Completed only after its process exited with code 0 and
\* main.json parsed; after a non-zero exit the run is stored as Error, and
\* after a zero exit with an unparsable main.json as Error with the
\* parse-failure message.
C6_CompletedOnlyOnZeroExitAndParse ==
  [][\A j \in Jobs :
       /\ (status'[j] = "completed" /\ status[j] # "completed")
            => (procEnd[j] = "exit0" /\ artifact[j])
       /\ (pc[j] = "catch" /\ pc'[j] = "usageErr" /\ procEnd[j] = "exitN")
            => status'[j] = "error"
       /\ (pc[j] = "catch" /\ pc'[j] = "usageErr" /\ procEnd[j] = "exit0" /\ ~artifact[j])
            => (status'[j] = "error" /\ errorMessage'[j] = E_PARSE)]_vars

\* C7: when runLeanBacktest has returned or thrown, the lease the run took is
\* gone, its poller is stopped and its workspace is removed unless
\* LEAN_KEEP_TEMP is set.  (Runs in which a cleanup step itself raised an
\* error are the subject of C8 and are left out here.)
C7_CleanupGuaranteed ==
  \A j \in Jobs :
    (pc[j] = "returned" /\ cleanupErr[j] = {}) =>
      /\ (got[j] # NoPort => lease[got[j]].by # j)
      /\ ~poller[j]
      /\ (ws[j] => keepTemp)

\* C8: an error of a cleanup step is swallowed: a run whose try block returned
\* success never reaches the catch block of processBacktest, a run that failed
\* never reaches the Completed update, and a failed release does not keep the
\* removal of the workspace from being attempted.
C8_CleanupErrorsSwallowed ==
  \A j \in Jobs :
    /\ (pc[j] = "catch" => ret[j] # "success")
    /\ (pc[j] = "complete" => ret[j] = "success")
    /\ (pc[j] = "returned" /\ "release" \in cleanupErr[j] /\ ~keepTemp)
         => (~ws[j] \/ "rm" \in cleanupErr[j])

\* C9: a Completed job has progress 100 once every progress write issued
\* during the run has been applied.
C9_CompletedProgressStays100 ==
  \A j \in Jobs :
    (status[j] = "completed" /\ inflight[j] = {}) => progress[j] = 100

\* C10: a job whose owner has no credentials never gets a workspace, never
\* goes past the credentials check, and ends every attempt as Error with the
\* BROKER_NOT_CONNECTED message (which only an abort request's own message
\* can replace).
C10_NoCredentialsFailsFast ==
  \A j \in Jobs :
    ~creds[j] =>
      /\ ~ws[j]
      /\ pc[j] \in {"idle", "usage", "start", "mark", "creds", "catch", "usageErr"}
      /\ status[j] # "completed"
      /\ (pc[j] = "catch" => err[j] = E_BROKER)
      /\ (pc[j] = "idle" /\ attempts[j] > 0) =>
           /\ status[j] = "error"
           /\ \/ errorMessage[j] = E_BROKER
              \/ (aborts > 0 /\ errorMessage[j] = E_ABORT)

\* A job without credentials has used up its attempts, each ending in Error
\* with the BROKER_NOT_CONNECTED message.
C10_Witness ==
  \E j \in Jobs :
    /\ ~creds[j]
    /\ attempts[j] = QueueAttempts
    /\ pc[j] = "idle"
    /\ status[j] = "error"
    /\ errorMessage[j] = E_BROKER

\* ================================================== claims, abort and ports

\* The record of job j shows the abort and nothing is left to execute it.
AbortedAtRest(j) ==
  /\ ~queued[j]
  /\ pc[j] = "idle"
  /\ status[j] = "error"
  /\ errorMessage[j] = E_ABORT

AfterAlloc == {"subscribe", "spawn", "proc", "exited", "finally", "rm", "returned"}

\* C12: when the scan of allocatePort ends on a leased last port, no port is
\* returned and nothing in the store changes; the run goes on to the next
\* step without an error, and a run without a port never fails on the release
\* of a lease.
C12_PortExhaustionIsSoft ==
  [][\A j \in Jobs :
       /\ (pc[j] = "alloc" /\ pc'[j] # "alloc" /\ got'[j] = NoPort)
            => /\ lease' = lease
               /\ pc'[j] = "subscribe"
               /\ ret'[j] = "none"
               /\ err'[j] = ""
               /\ status'[j] = status[j]
       /\ (pc[j] \in AfterAlloc /\ got[j] = NoPort)
            => "release" \notin cleanupErr'[j]]_vars

\* A run that found every port of the range leased is about to be stored as
\* completed.
C12_Witness ==
  \E j \in Jobs :
    /\ pc[j] = "complete"
    /\ got[j] = NoPort
    /\ \A p \in Ports : Exists(lease, p)

\* C13: refreshPort sets the TTL of the key back to PORT_TTL_SECONDS and
\* returns true exactly when the key exists and holds the caller's workerId;
\* otherwise it returns false and the store is unchanged (no key created, no
\* owner changed, no TTL extended).
C13_RefreshOnlyByOwner ==
  [][(call' # call /\ call'.op = "refresh") =>
       LET p == call'.port
           own == Exists(lease, p) /\ lease[p].owner = call'.id
       IN /\ call'.ok <=> own
          /\ own => lease' = [lease EXCEPT ![p].ttl = PORT_TTL_SECONDS]
          /\ ~own => lease' = lease]_vars

\* A refresh by another identity was refused on a lease whose TTL has been
\* running down.
C13_Witness ==
  /\ call.op = "refresh"
  /\ ~call.ok
  /\ Exists(lease, call.port)
  /\ lease[call.port].owner # call.id
  /\ lease[call.port].ttl < PORT_TTL_SECONDS

\* ============================================================ claims, ledger

\* Statuses of a usage row that say its job is over.
TerminalUsage == {"completed", "error", "aborted"}

\* C14: when processBacktest is over, the job is Completed or Error and the
\* usage row linked to it has a terminal status, the two statuses are equal
\* and a Completed job's row carries its compute seconds.
C14_LedgerMirrorsJob ==
  \A j \in Jobs :
    (/\ pc[j] = "idle"
     /\ status[j] \in {"completed", "error"}
     /\ link[j] # NoUsage
     /\ usage[j][link[j]].status \in TerminalUsage)
    => /\ usage[j][link[j]].status = status[j]
       /\ status[j] = "completed" => usage[j][link[j]].cs

\* C15: at most one usage row exists for a job, retries included.
C15_OneUsageRecordPerJob ==
  \A j \in Jobs : Len(usage[j]) <= 1

\* C16: a run of cleanupOrphanedJobs leaves every row that an earlier run
\* closed exactly as that run left it (status, completed_at, error_message),
\* so that two runs in succession close a stale running row once.
C16_ReconciliationIdempotent ==
  [][rec' # rec =>
       \A u \in UsageIds :
         usage[u[1]][u[2]].msg = "orphan" => usage'[u[1]][u[2]] = usage[u[1]][u[2]]]_vars

\* Two runs of cleanupOrphanedJobs have finished and a row closed by the
\* reconciliation has had its completed_at written once.
C16_Witness ==
  /\ rec.runs = 2
  /\ \E u \in UsageIds :
       /\ usage[u[1]][u[2]].status = "aborted"
       /\ usage[u[1]][u[2]].msg = "orphan"
       /\ usage[u[1]][u[2]].stamp = 1

\* C17: cleanupOrphanedJobs turns a running row into aborted only when the
\* process of its run is not alive or the row is older than 30 minutes.
C17_OrphanAbortsOnlyDeadOrOld ==
  [][\A u \in UsageIds :
       (/\ rec' # rec
        /\ usage[u[1]][u[2]].status = "running"
        /\ usage'[u[1]][u[2]].status = "aborted")
       => (~ProcessAlive(u) \/ usage[u[1]][u[2]].age > STALE_MINUTES)]_vars

\* C18: abortStaleJobs(30) turns into aborted every row that is running and
\* older than 30 minutes, whether or not its process is alive, and leaves
\* every other row as it is.
C18_SweepAbortsExactlyStaleRunning ==
  [][(led' # led /\ led'.op = "sweep") =>
       \A u \in UsageIds :
         IF usage[u[1]][u[2]].status = "running" /\ usage[u[1]][u[2]].age > STALE_MINUTES
         THEN usage'[u[1]][u[2]].status = "aborted"
         ELSE usage'[u[1]][u[2]] = usage[u[1]][u[2]]]_vars

\* The sweep has just closed the row of a run whose process is still alive.
C18_Witness ==
  /\ led.op = "sweep"
  /\ \E u \in UsageIds :
       /\ usage[u[1]][u[2]].status = "aborted"
       /\ usage[u[1]][u[2]].msg = "timeout"
       /\ ProcessAlive(u)

\* C19: when the quota lookup gives no row or fails, canUserRunJob answers
\* allowed.
C19_QuotaFailsOpen ==
  (led.op = "quota" /\ led.arg \in {"norow", "throws"}) => led.res = "allowed"

\* ============================================================= claims, cache

\* C20: checkCacheStatus answers full exactly when an earlier
\* ensureSymbolInCache call for the symbol had a range that contains the
\* queried range, and answers none for a symbol no such call has touched.
C20_FullIffEnsuredSuperset ==
  [][chk' # chk =>
       LET covered == \E c \in ensured :
                        c[1] = chk'.sym /\ c[2] <= chk'.from /\ chk'.to <= c[3]
           touched == \E c \in ensured : c[1] = chk'.sym
       IN /\ (chk'.status = "full") <=> covered
          /\ ~touched => chk'.status = "none"]_vars

\* The calendar day of a date-only value (getFullYear, getMonth, getDate).
LocalDay(t) == (t + tz) \div HoursPerDay

CalendarDays(bars) == {LocalDay(bars[i].date) : i \in DOMAIN bars}

\* C21: the result of mergeBars is sorted by date, holds exactly one bar per
\* calendar date, has as many bars as there are distinct dates in the two
\* inputs, and on every date of the new input it carries a bar of the new
\* input.
C21_MergeSortedDeduplicated ==
  mrg.done =>
    LET m == mrg.merged
    IN /\ \A i, j \in DOMAIN m : i < j => m[i].date < m[j].date
       /\ \A i, j \in DOMAIN m : i # j => LocalDay(m[i].date) # LocalDay(m[j].date)
       /\ CalendarDays(m) = CalendarDays(mrg.existing) \cup CalendarDays(mrg.newBars)
       /\ Len(m) = Cardinality(CalendarDays(mrg.existing) \cup CalendarDays(mrg.newBars))
       /\ \A i \in DOMAIN m :
            LocalDay(m[i].date) \in CalendarDays(mrg.newBars) =>
              \E k \in DOMAIN mrg.newBars : m[i] = mrg.newBars[k]

\* A merge of two inputs that hold different bars for one date and a bar
\* for another date, on a server that is not on UTC.
C21_Witness ==
  /\ mrg.done
  /\ tz # UTC
  /\ Len(mrg.merged) >= 2
  /\ \E i \in DOMAIN mrg.existing, k \in DOMAIN mrg.newBars :
       /\ mrg.existing[i].date = mrg.newBars[k].date
       /\ mrg.existing[i].close # mrg.newBars[k].close

\* C22: an ensureSymbolInCache call never shrinks the cached range of its
\* symbol: the first cached date is no later and the last cached date no
\* earlier after the call than before it.
C22_RangeNeverShrinks ==
  [][(ens' # ens /\ HasCachedRange(zip[ens'.sym])) =>
       /\ HasCachedRange(zip'[ens'.sym])
       /\ FirstDate(zip'[ens'.sym]) <= FirstDate(zip[ens'.sym])
       /\ LastDate(zip'[ens'.sym]) >= LastDate(zip[ens'.sym])]_vars

LineDays(z) == {z[i].day : i \in DOMAIN z}

\* The days some ensureSymbolInCache call for the symbol was asked to cover.
AskedDays(sym) == UNION {c[2]..c[3] : c \in {e \in ensured : e[1] = sym}}

\* The days strictly inside the cached range of the symbol for which the
\* cache has no bar and which no call was asked to cover.
Gaps(sym) ==
  IF ~HasCachedRange(zip[sym]) THEN {}
  ELSE {d \in (zip[sym][1].day + 1)..(zip[sym][Len(zip[sym])].day - 1) :
          d \notin LineDays(zip[sym]) /\ d \notin AskedDays(sym)}

\* C23: the cached range of a symbol is contiguous: no day strictly inside
\* it is one that no call supplied or was asked to cover, and
\* checkCacheStatus never answers full for a range that contains such a day.
C23_CoverageContiguous ==
  /\ \A sym \in Symbols : Gaps(sym) = {}
  /\ chk.status = "full" => Gaps(chk.sym) \cap (chk.from..chk.to) = {}

\* C24: an ensureSymbolInCache call that finds the status full leaves the
\* zip file, the map file and the factor file as they were, whatever bars
\* it was given.
C24_EnsureNoOpWhenFull ==
  [][(ens' # ens /\ ens'.status = "full") => (zip' = zip /\ aux' = aux)]_vars

\* A call that found the status full and was given a bar for a day the
\* cache has no line for.
C24_Witness ==
  /\ ens.status = "full"
  /\ ~(ens.days \subseteq LineDays(zip[ens.sym]))

\* C25: after one ensureSymbolInCache call over a range, checkCacheStatus
\* over a wider range with the same start answers partial; after a further
\* ensureSymbolInCache call over the wider range, with the bars found for
\* it, checkCacheStatus over the wider range answers full.
C25_ExtendThenFull ==
  [][chk' # chk =>
       /\ (/\ ens.n = 1
           /\ \E t \in Days : t < chk'.to /\ ensured = {<<chk'.sym, chk'.from, t>>})
          => chk'.status = "partial"
       /\ (/\ ens.n = 2
           /\ ens.to = chk'.to
           /\ \E t \in Days : /\ t < chk'.to
                              /\ ensured = {<<chk'.sym, chk'.from, t>>,
                                            <<chk'.sym, chk'.from, chk'.to>>})
          => chk'.status = "full"]_vars

\* ================================================= claims, progress, retry

\* C29: every progress value of a job record lies in 0..100, and every
\* progress value mapped from a marker of the engine's output lies in
\* 50..90.
C29_ProgressWithinBands ==
  \A j \in Jobs :
    /\ progress[j] \in 0..100
    /\ \A v \in inflight[j] : v \in 50..90

C26_StreamUntilTerminalEvent ==
  /\ [][/\ sse.phase = "ended" => sse'.seq = sse.seq
        /\ sse'.seq # sse.seq =>
             IF sse'.last.status \in {"completed", "error"}
             THEN /\ sse'.last.type = "error" \/ sse'.last.completed
                  /\ sse'.phase = "ended"
             ELSE /\ sse'.last.type = "progress"
                  /\ sse'.phase # "ended"]_vars
  /\ (sse.phase \in {"setup", "run"} /\ status[sse.job] \in {"completed", "error"})
       ~> (sse.phase = "ended" \/ ~sse.client)

\* C27: once the client of a stream has disconnected the polling interval
\* is not armed, no poll is started and no event is written to the
\* connection.
C27_UnsubscribesOnDisconnect ==
  (sse.phase # "none" /\ ~sse.client) => (~sse.timer /\ ~sse.late)

\* C28: the updates passed to the subscriber of a job's channel are, for each
\* series, in the order in which the worker published them.
C28_ChartOrderPreserved ==
  \A a, b \in DOMAIN chan.seen :
    (a < b /\ chan.seen[a].series = chan.seen[b].series) =>
      chan.seen[a].id < chan.seen[b].id

\* The subscriber has received two updates of one series, published after
\* an update it missed.
C28_Witness ==
  /\ Len(chan.seen) >= 2
  /\ chan.seen[1].series = chan.seen[2].series
  /\ chan.seen[1].id > 1

\* ================================================ claims, ledger and leases

\* Positions of processBacktest at its three ledger steps.
LedgerSteps == {"usage", "mark", "usageDone", "usageErr"}

\* C31: a failure to create the usage row at pickup is not fatal: every
\* ledger step of processBacktest, whether its statement succeeds or fails,
\* goes on to the step that follows it and leaves the job record as it is, and
\* an invocation without a usage row adds no row to the ledger later.
C31_UsageCreateFailureNonFatal ==
  [][\A j \in Jobs :
       /\ (pc[j] \in LedgerSteps /\ pc'[j] # pc[j]) =>
            /\ pc'[j] = CASE pc[j] = "usage" -> "start"
                          [] pc[j] = "mark" -> "creds"
                          [] OTHER -> "idle"
            /\ status'[j] = status[j]
            /\ errorMessage'[j] = errorMessage[j]
            /\ progress'[j] = progress[j]
       /\ (pc[j] \notin {"idle", "usage"} /\ uid[j] = NoUsage) =>
            Len(usage'[j]) = Len(usage[j])]_vars

\* A job whose usage row could not be created was stored as completed, and
\* the ledger has no row for it.
C31_Witness ==
  /\ status["j1"] = "completed"
  /\ pc["j1"] = "idle"
  /\ usage["j1"] = <<>>
  /\ faults < MaxFaults

\* C32: the release in the finally block of a run leaves in place a lease on
\* the run's port that was acquired for another job which is using the port.
C32_ReleaseSparesOtherJobsLease ==
  [][\A j \in Jobs, k \in Jobs :
       (/\ j # k
        /\ pc[j] = "finally" /\ pc'[j] # "finally"
        /\ got[j] # NoPort
        /\ got[k] = got[j] /\ pc[k] \in UsingPort
        /\ lease[got[j]].by = k)
       => lease'[got[j]] = lease[got[j]]]_vars

\* C33: cleanupStalePorts of a starting worker deletes every lease that the
\* jobs of that worker acquired: a key it reads that was set for a job of its
\* node is a key it goes on to delete.
C33_StartupCleanupDeletesOwnLeases ==
  [][\A n \in Nodes :
       (/\ cs[n].pc = "get" /\ cs'[n] # cs[n]
        /\ Exists(lease, cs[n].port)
        /\ node[lease[cs[n].port].by] = n)
       => cs'[n] = [pc |-> "del", port |-> cs[n].port]]_vars

\* C34: an abort request changes a job record only when the status of the
\* job is queued or running at the moment of the change; a request on a
\* terminal job is rejected without a change.
C34_AbortOnlyQueuedOrRunning ==
  [][\A j \in Jobs :
       /\ (ab[j] = "checked" /\ ab'[j] = "updated") =>
            status[j] \in {"queued", "running"}
       /\ (ab[j] = "idle" /\ aborts' # aborts /\ status[j] \in Terminal) =>
            (ab'[j] = "idle" /\ status'[j] = status[j]
               /\ errorMessage'[j] = errorMessage[j])]_vars

\* C35: once a usage row has the status completed, error or aborted, no
\* step changes that status.
C35_TerminalUsageIsFinal ==
  [][\A u \in UsageIds :
       usage[u[1]][u[2]].status \in TerminalUsage =>
         usage'[u[1]][u[2]].status = usage[u[1]][u[2]].status]_vars

\* C36: a run whose process ended without an exit code returns a failure,
\* and its job is not stored as completed.
C36_SignalExitIsFailure ==
  [][\A j \in Jobs :
       procEnd[j] = "signal" =>
         /\ (pc[j] = "exited" /\ pc'[j] # "exited") => ret'[j] = "fail"
         /\ (status'[j] = "completed" => status[j] = "completed")]_vars

\* Positions of a run at which it reads or writes its workspace.
UsesWorkspace == {"alloc", "subscribe", "spawn", "proc", "exited"}

\* C38: two runs in progress at the same time have different workspace
\* directories, and the directory of a run exists for as long as the run
\* uses it.
C38_WorkspaceIsolated ==
  /\ \A j, k \in Jobs :
       (j # k /\ workspaceId[j] # NoWorkspace /\ workspaceId[k] # NoWorkspace)
         => workspaceId[j] # workspaceId[k]
  /\ \A j \in Jobs : pc[j] \in UsesWorkspace => ws[j]

\* ============================================= claims, submit and providers

\* A queue entry was made for the job: it waits, is processed, or was taken.
EntryMade(j) == queued[j] \/ pc[j] # "idle" \/ attempts[j] > 0

\* C37: a job that a worker picks up has a committed record at that moment,
\* and when the create request ends, with success or with an error, a queue
\* entry was made for the job if and only if its record exists.
C37_SubmitAtomic ==
  [][\A j \in Jobs :
       /\ (pc[j] = "idle" /\ pc'[j] # "idle") => status[j] # "none"
       /\ (tx'[j] # tx[j] /\ tx'[j] \in {"committed", "rolledback"}) =>
            (EntryMade(j)' <=> status'[j] # "none")]_vars

\* C39: an iteration whose provider has credentials and whose fetch gives no
\* bars goes on to the next provider, for a symbol that is not cached and
\* for one that is partially cached; and the call raises its error only
\* when no provider of the list had credentials and gave bars.
C39_ProviderCascade ==
  [][md' # md =>
       LET order == providerOrder(md.env)
       IN /\ md.i \in DOMAIN order =>
               LET p == order[md.i]
               IN (HasProviderCredentials(p) /\ SymbolInfo(p) # "full"
                     /\ ~FetchGivesBars(p))
                    => (md'.out = "" /\ md'.i = md.i + 1)
          /\ md'.out = "error" =>
               \A k \in DOMAIN order :
                 ~(HasProviderCredentials(order[k]) /\ FetchGivesBars(order[k]))]_vars

====
